---- MODULE Spec2Model ----
(***************************************************************************)
(* The experiment pipeline of wasmer-borealis:                             *)
(*   registry listing task -> page channel -> Wapm loop -> discovered      *)
(*   channel -> Orchestrator (one future per test case) -> Cache           *)
(*   (FetchAssets) -> Runner (BeginTest) -> Results.                       *)
(*                                                                         *)
(* Spec        the whole pipeline; prepare_assets runs as one step.        *)
(* SpecCache   the Cache alone under concurrent FetchAssets requests for   *)
(*             one test case, with prepare_assets / do_download taken one  *)
(*             filesystem or network operation at a time.                  *)
(* SpecLogged  discovery up to the arrival of the test cases in the        *)
(*             orchestrator, with the history of registry requests.        *)
(* SpecFair    Spec with every task of the pipeline scheduled fairly.      *)
(* SpecOverlap Spec with the orchestrator, cache and runner scheduled      *)
(*             fairly while the registry may stop answering.               *)
(* SpecMachine Spec with the permits Cache::new and Runner::new take from  *)
(*             the machine's available parallelism.                        *)
(* SpecBacklog a one-core machine and a registry with more test cases than *)
(*             the channel and the semaphores take, when nothing fails.    *)
(* SpecSetup   the Runner alone: one BeginTest through setup() and         *)
(*             cmd.status(), one filesystem operation at a time.           *)
(* SpecRun     Spec followed by the rest of ExperimentBuilder::run, for an *)
(*             experiment_dir that exists or not.                          *)
(***************************************************************************)
EXTENDS Integers, Sequences, FiniteSets, TLC

\* ------------------------------------------------------------------ bounds

\* The registry holds at most this many test cases for one experiment.
MaxCases == 2
\* The largest std::thread::available_parallelism() seen by Cache::new.
DownloadLimit == 2
\* std::thread::available_parallelism() as seen by Runner::new.
ProcessLimit == 1
\* FetchAssets requests submitted to the Cache in SpecCache.
MaxRequests == 3

\* futures::channel::mpsc::channel(1): the buffer argument.
ChannelBuffer == 1

\* Runner::new: the permits of the semaphore when the parallelism of the
\* machine is not known.
DefaultProcesses == 4

\* cache.rs: const DEFAULT_CONCURRENT_DOWNLOADS
DEFAULT_CONCURRENT_DOWNLOADS == 16

\* ------------------------------------------------------------ data model

\* Option<T>: None is the empty sequence, Some(v) is <<v>>.
None == <<>>
Some(v) == <<v>>

\* registry::queries::PackageVersion; webc stands for
\* distribution.pirita_download_url.is_some().
V1 == [version |-> "1", webc |-> FALSE]
V2 == [version |-> "2", webc |-> TRUE]

\* registry::queries::Package values the registry may return.
PkgA ==
    [namespace |-> "a", package_name |-> "x", display_name |-> "a/x",
     last_version |-> Some(V2), versions |-> <<Some(V1), None, Some(V2)>>]
PkgB ==
    [namespace |-> "a", package_name |-> "y", display_name |-> "a/y",
     last_version |-> None, versions |-> <<Some(V1)>>]

PkgC ==
    [namespace |-> "b", package_name |-> "z", display_name |-> "b/z",
     last_version |-> Some(V1), versions |-> <<Some(V1)>>]

\* A package of the global namespace: the registry's display_name leaves
\* the namespace out.
PkgD ==
    [namespace |-> "_", package_name |-> "w", display_name |-> "w",
     last_version |-> Some(V1), versions |-> <<Some(V1)>>]

\* The non-empty pages a request for all packages or for the packages of
\* namespace "a" may return.
PageChoices == {<<PkgA>>, <<PkgB>>, <<PkgA, PkgB>>}

\* The non-empty pages a request for the packages of user "b" may return:
\* the user owns a/x and a package of their own namespace.
UserPageChoices == {<<PkgA>>, <<PkgC>>}

\* The pages the registry may return to a listing.
PagesOf(target) ==
    IF target = [kind |-> "user", name |-> "b"]
    THEN UserPageChoices
    ELSE IF target = [kind |-> "namespace", name |-> "_"]
    THEN {<<PkgD>>}
    ELSE PageChoices

\* config::Filters values of the experiments explored.
FilterChoices ==
    { [namespaces |-> <<"a">>, users |-> <<>>, blacklist |-> {"a/y"},
       include_every_version |-> TRUE],
      [namespaces |-> <<"a">>, users |-> <<"a">>, blacklist |-> {},
       include_every_version |-> FALSE],
      [namespaces |-> <<>>, users |-> <<>>, blacklist |-> {},
       include_every_version |-> TRUE] }

\* The experiments explored with the history of registry requests: those
\* above, one whose namespace and user listings return different
\* packages, and one that blacklists a package of the global namespace.
LoggedFilterChoices ==
    FilterChoices \cup
    { [namespaces |-> <<"a">>, users |-> <<"b">>, blacklist |-> {},
       include_every_version |-> FALSE],
      [namespaces |-> <<"_">>, users |-> <<>>, blacklist |-> {"_/w"},
       include_every_version |-> FALSE] }

\* TestCase::new
NewTestCase(registry, namespace, package_name, package_version) ==
    [registry |-> registry, namespace |-> namespace,
     package_name |-> package_name, version |-> package_version.version,
     webc |-> package_version.webc]

Hostname == "registry"

RECURSIVE FlattenVersions(_)
\* pkg.versions.into_iter().flatten()
FlattenVersions(versions) ==
    IF versions = <<>> THEN <<>>
    ELSE Head(versions) \o FlattenVersions(Tail(versions))

\* TestCase::all
TestCaseAll(registry, pkg) ==
    LET vs == FlattenVersions(pkg.versions)
    IN  [k \in 1..Len(vs) |->
            NewTestCase(registry, pkg.namespace, pkg.package_name, vs[k])]

\* Faulty variant: the latest version is taken from the versions list.
TestCaseLatest_Newest(registry, pkg) ==
    LET vs == FlattenVersions(pkg.versions)
    IN  IF vs # <<>>
        THEN <<NewTestCase(registry, pkg.namespace, pkg.package_name,
                           vs[Len(vs)])>>
        ELSE <<>>

\* TestCase::latest
TestCaseLatest(registry, pkg) ==
    IF pkg.last_version # None
    THEN <<NewTestCase(registry, pkg.namespace, pkg.package_name,
                       pkg.last_version[1])>>
    ELSE <<>>

RECURSIVE DiscoverPage(_, _)
\* The closure of receiver.map in discover_test_cases: blacklist filter,
\* then flat_map over the versions selected by include_every_version.
DiscoverPage(f, page) ==
    IF page = <<>> THEN <<>>
    ELSE LET pkg == Head(page)
             kept == f.blacklist = {} \/ pkg.display_name \notin f.blacklist
             cases == IF ~kept THEN <<>>
                      ELSE IF f.include_every_version
                      THEN TestCaseAll(Hostname, pkg)
                      ELSE TestCaseLatest(Hostname, pkg)
         IN  cases \o DiscoverPage(f, Tail(page))

\* Faulty variant: every namespace listing asks for "wasmer" and the users
\* are not listed.
Plan_Wasmer(f) ==
    IF f.namespaces = <<>> /\ f.users = <<>>
    THEN <<[kind |-> "all", name |-> ""]>>
    ELSE [k \in 1..Len(f.namespaces) |->
             [kind |-> "namespace", name |-> "wasmer"]]

\* Faulty variant: the users are listed before the namespaces.
Plan_UsersFirst(f) ==
    IF f.namespaces = <<>> /\ f.users = <<>>
    THEN <<[kind |-> "all", name |-> ""]>>
    ELSE [k \in 1..Len(f.users) |->
             [kind |-> "user", name |-> f.users[k]]]
         \o [k \in 1..Len(f.namespaces) |->
             [kind |-> "namespace", name |-> f.namespaces[k]]]

\* The listings discover_test_cases performs, in order.
Plan(f) ==
    IF f.namespaces = <<>> /\ f.users = <<>>
    THEN <<[kind |-> "all", name |-> ""]>>
    ELSE [k \in 1..Len(f.namespaces) |->
             [kind |-> "namespace", name |-> f.namespaces[k]]]
         \o [k \in 1..Len(f.users) |->
             [kind |-> "user", name |-> f.users[k]]]

\* Every test case the registry can give rise to.
AllCases ==
    UNION { {TestCaseAll(Hostname, p)[k] : k \in 1..Len(TestCaseAll(Hostname, p))}
            \cup {TestCaseLatest(Hostname, p)[k] :
                    k \in 1..Len(TestCaseLatest(Hostname, p))} :
            p \in {PkgA, PkgB, PkgC, PkgD} }

\* ------------------------------------------------------- cache directory

\* A directory is the set of its entries; "." is the directory itself, so
\* {} is "does not exist" and {"."} is an empty directory.
Tarball == "tarball"
Webc == "webc"
Absent == {}
EmptyDir == {"."}

\* What do_download puts into the temporary directory for a test case.
Downloaded(c) == IF c.webc THEN {".", Tarball, Webc} ELSE {".", Tarball}

\* Faulty variant: any cached file makes a hit.
IsHit_AnyFile(dir) == "." \in dir /\ (Tarball \in dir \/ Webc \in dir)

\* prepare_assets: cache_dir.exists() && tarball_path.exists()
IsHit(dir) == "." \in dir /\ Tarball \in dir

\* Faulty variant: a hit never reports the webc.
HitWebc_Never(dir) == FALSE

\* prepare_assets, hit: std::fs::metadata(&webc_path) is Ok, so that
\* Assets.webc is Some(webc_path).
HitWebc(dir) == Webc \in dir

\* The root directory of the Cache.
CacheRoot == "cache"

\* package_version_dir: dir/registry/namespace/package_name/version
package_version_dir(dir, test_case) ==
    <<dir, test_case.registry, test_case.namespace, test_case.package_name,
      test_case.version>>

\* Path::with_extension for a file name without a dot: the name and the
\* extension.
WithExtension(name, extension) == <<name, extension>>

\* prepare_assets: cache_dir.join(package_name).with_extension("tar.gz")
TarballPath(dir, test_case) ==
    Append(package_version_dir(dir, test_case),
           WithExtension(test_case.package_name, "tar.gz"))

\* prepare_assets: cache_dir.join(package_name).with_extension("webc")
WebcPath(dir, test_case) ==
    Append(package_version_dir(dir, test_case),
           WithExtension(test_case.package_name, "webc"))

\* ---------------------------------------------------------- runner, setup

\* config::TemplatedString: the text as the pieces shellexpand sees, each
\* a pair of its kind and its text. A "tilde" piece stands at the start.
Lit(s) == <<"lit", s>>
Var(name) == <<"var", name>>
Tilde == <<"tilde", "~">>

\* map.get(var) of a HashMap<&str, String>, a function on its keys.
Get(map, var) == IF var \in DOMAIN map THEN Some(map[var]) ELSE None

\* Option::or_else
OrElse(first, second) == IF first # None THEN first ELSE second

\* Path::join followed by display().to_string().
Join(dir, name) == dir \o "/" \o name

\* TestCase::webc_url(): Some when the registry gave a pirita download url.
webc_url(test_case) ==
    IF test_case.webc
    THEN Some(Join(test_case.registry, "webc"))
    ELSE None

\* Env::new
EnvNew(working_dir, test_case) ==
    LET has_webc == webc_url(test_case) # None
        common_names == {"PKG_NAMESPACE", "PKG_NAME", "PKG_VERSION",
                         "TARBALL_FILENAME"}
                        \cup (IF has_webc THEN {"WEBC_FILENAME"} ELSE {})
        host_names == {"TARBALL_PATH", "WORKING_DIR"}
                      \cup (IF has_webc THEN {"WEBC_PATH"} ELSE {})
    IN  [common |-> [v \in common_names |->
                        CASE v = "PKG_NAMESPACE" -> test_case.namespace
                          [] v = "PKG_NAME" -> test_case.package_name
                          [] v = "PKG_VERSION" -> test_case.version
                          [] v = "TARBALL_FILENAME" -> "package.tar.gz"
                          [] v = "WEBC_FILENAME" -> "package.webc"],
         host |-> [v \in host_names |->
                        CASE v = "TARBALL_PATH" ->
                                Join(working_dir, "package.tar.gz")
                          [] v = "WEBC_PATH" ->
                                Join(working_dir, "package.webc")
                          [] v = "WORKING_DIR" -> working_dir]]

\* Env::get_host
get_host(env, var) == OrElse(Get(env.host, var), Get(env.common, var))

\* Faulty variant: the guest sees the host scope too.
get_guest_Host(env, var) == OrElse(Get(env.host, var), Get(env.common, var))

\* Env::get_guest
get_guest(env, var) == Get(env.common, var)

\* The scopes setup() hands to TemplatedString::resolve.
HostScope == "host"
GuestScope == "guest"
Lookup(env, scope, var) ==
    IF scope = HostScope THEN get_host(env, var) ELSE get_guest(env, var)

RECURSIVE resolve(_, _, _, _)
\* TemplatedString::resolve, shellexpand::full_with_context_no_errors: the
\* leading tilde becomes the home directory, a variable the scope knows
\* becomes its value, and a variable it does not know stays as written.
resolve(template, home, env, scope) ==
    IF template = <<>> THEN ""
    ELSE LET piece == Head(template)
             text == CASE piece[1] = "lit" -> piece[2]
                       [] piece[1] = "tilde" -> home
                       [] piece[1] = "var" ->
                            LET value == Lookup(env, scope, piece[2])
                            IN  IF value # None THEN value[1]
                                ELSE "${" \o piece[2] \o "}"
         IN  text \o resolve(Tail(template), home, env, scope)

\* for arg in list { cmd.arg(arg.resolve(home_dir, scope)) }
ResolveAll(list, home, env, scope) ==
    [k \in 1..Len(list) |-> resolve(list[k], home, env, scope)]

\* for (name, value) in &experiment.env: format!("--env={name}={value}")
GuestEnvArgs(entries, home, env) ==
    [k \in 1..Len(entries) |->
        "--env=" \o entries[k][1] \o "="
                 \o resolve(entries[k][2], home, env, GuestScope)]

\* Faulty variant: the guest's environment follows the separator.
CommandArgs_EnvLast(experiment, home, env) ==
    <<"run", experiment.package>>
    \o ResolveAll(experiment.wasmer.args, home, env, HostScope)
    \o <<"--">>
    \o GuestEnvArgs(experiment.env, home, env)
    \o ResolveAll(experiment.args, home, env, GuestScope)

\* setup(): the arguments given to cmd, in the order of the cmd.arg calls.
CommandArgs(experiment, home, env) ==
    <<"run", experiment.package>>
    \o ResolveAll(experiment.wasmer.args, home, env, HostScope)
    \o GuestEnvArgs(experiment.env, home, env)
    \o <<"--">>
    \o ResolveAll(experiment.args, home, env, GuestScope)

\* The variables setup() forwards from the parent environment.
whitelisted_vars == {"PATH", "WASMER_DIR"}

RECURSIVE SetAll(_, _, _, _)
\* for (name, value) in &experiment.wasmer.env { cmd.env(name, value) }: a
\* later cmd.env replaces an earlier value of the same name.
SetAll(envs, entries, home, env) ==
    IF entries = <<>> THEN envs
    ELSE LET name == Head(entries)[1]
             value == resolve(Head(entries)[2], home, env, HostScope)
             rest == [n \in DOMAIN envs \ {name} |-> envs[n]]
         IN  SetAll((name :> value) @@ rest, Tail(entries), home, env)

\* Faulty variant: the child inherits the parent's environment.
CommandEnvs_Inherit(experiment, parent, home, env) ==
    SetAll(parent, experiment.wasmer.env, home, env)

\* setup(): env_clear(), the whitelisted variables the parent has, then
\* experiment.wasmer.env.
CommandEnvs(experiment, parent, home, env) ==
    LET forwarded == [n \in DOMAIN parent \cap whitelisted_vars |-> parent[n]]
    IN  SetAll(forwarded, experiment.wasmer.env, home, env)

\* setup(): tokio::process::Command::new("wasmer"), whatever
\* experiment.wasmer.version says.
CommandProgram(experiment) == "wasmer"

\* ------------------------------------------------------------------ state

VARIABLES
    filters,      \* experiment.filters
    lpc,          \* the listing task: "request" | "send" | "finished" | "panicked"
    lidx,         \* index into Plan(filters) of the listing in progress
    offset,       \* packages_query: offset
    lpage,        \* the page packages_query is sending
    seen,         \* display names the registry returned in this listing
    listings,     \* history: how each listing ended ("ok" | "error" | "panic")
    queried,      \* history: the requests packages_query made, with answers
    logged,       \* whether the specification keeps the history queried
    pages,        \* the page channel of discover_test_cases
    wpc,          \* the Wapm loop: "next" | "send" | "finished"
    wbatch,       \* the test cases of the current page still to send
    discovered,   \* the channel between Wapm and the Orchestrator
    emitted,      \* history: every test case Wapm has sent
    opc,          \* BeginExperiment: "loop" | "collect" | "done"
    tasks,        \* the futures pushed into FuturesUnordered
    completed,    \* the reports collected so far
    results,      \* Results.reports once BeginExperiment has returned
    dlLimit,      \* the permits Cache::new gave download_limiter
    dlPermits,    \* permits left in Cache.download_limiter
    procPermits,  \* permits left in Runner.semaphore
    dest,         \* the cache: package_version_dir of each test case
    dest0,        \* history: the cache directory as the experiment found it
    run,          \* the BeginTest followed through setup() step by step
    builder       \* ExperimentBuilder::run: its position, experiment_dir
                  \* on disk and what it returned

discVars == <<filters, lpc, lidx, offset, lpage, seen, listings, queried,
              logged, pages, wpc, wbatch, discovered, emitted>>
orchVars == <<opc, completed, results>>
fsVars == <<dest, dest0, dlLimit, run, builder>>
vars == <<filters, lpc, lidx, offset, lpage, seen, listings, queried,
          logged, pages, wpc, wbatch, discovered, emitted, opc, tasks,
          completed, results, dlLimit, dlPermits, procPermits, dest, dest0,
          run, builder>>

\* A future created by the closure of receiver.map for one test case.
NewTask(c) ==
    [case |-> c,
     pc |-> "fetch_wait",
     fetch |-> "none",      \* "hit" | "miss" | "err" once FetchAssets returned
     error |-> "none",      \* what failed
     begun |-> FALSE,       \* BeginTest has been sent to the Runner
     outcome |-> "none",    \* Outcome of the Report
     success |-> FALSE,     \* ExitStatus.success
     webc |-> FALSE,        \* Assets.webc.is_some()
     temp |-> Absent,       \* the TempDir of do_download
     events |-> <<>>,       \* CacheStatusMessages sent for this request
     http |-> 0,            \* HTTP requests download_file made for it
     bytes |-> "none"]      \* history: whose bytes the returned files hold

Tasks == 1..Len(tasks)

\* Faulty variant: a channel without a bound.
ChannelCanSend_Unbounded(queue) == TRUE

\* mpsc::Sender::poll_ready for the single sender of a channel: the sender
\* is parked once the queue holds more than `buffer` messages.
ChannelCanSend(queue) == Len(queue) <= ChannelBuffer

\* ------------------------------------------------------------- discovery

RECURSIVE CasesIn(_, _)
\* The test cases the pages of a queue will turn into.
CasesIn(f, queue) ==
    IF queue = <<>> THEN 0
    ELSE Len(DiscoverPage(f, Head(queue))) + CasesIn(f, Tail(queue))

\* Test cases found so far, whether or not they were sent on.
Found == Len(emitted) + Len(wbatch) + CasesIn(filters, pages)
           + (IF lpc = "send" THEN Len(DiscoverPage(filters, lpage)) ELSE 0)

\* packages_query: one POST of build(offset) and what came back: a
\* non-empty page, an empty page, an Err, or a GraphQL errors array.
Query(answer, page) ==
    queried' = IF logged
               THEN Append(queried, [listing |-> lidx,
                                     target |-> Plan(filters)[lidx],
                                     offset |-> offset,
                                     answer |-> answer, page |-> page])
               ELSE queried

\* Faulty variant: the first failed listing ends discovery.
NextListing_AbortOnError(how) ==
    /\ listings' = Append(listings, how)
    /\ lidx' = lidx + 1
    /\ offset' = 0
    /\ lpage' = <<>>
    /\ seen' = {}
    /\ lpc' = IF how = "error" \/ lidx + 1 > Len(Plan(filters))
              THEN "finished" ELSE "request"

\* discover_test_cases: the next listing of the for loops, or the end of
\* the spawned task, which drops the page sender.
NextListing(how) ==
    /\ listings' = Append(listings, how)
    /\ lidx' = lidx + 1
    /\ offset' = 0
    /\ lpage' = <<>>
    /\ seen' = {}
    /\ lpc' = IF lidx + 1 > Len(Plan(filters)) THEN "finished" ELSE "request"

\* The packages of a page, by display name.
DisplayNames(page) == {page[k].display_name : k \in 1..Len(page)}

\* Faulty variant: the offset counts pages, not packages.
NextOffset_ByPage(at, packages) == at + 1

\* packages_query: offset += i32::try_from(packages.len()).unwrap()
NextOffset(at, packages) == at + Len(packages)

\* packages_query: the registry answers with a non-empty page, of packages
\* it has not yet returned in this listing; the registry holds at most
\* `cap` test cases.
ListPageUpTo(cap) ==
    /\ lpc = "request"
    /\ \E page \in PagesOf(Plan(filters)[lidx]) :
        /\ DisplayNames(page) \cap seen = {}
        /\ Found + Len(DiscoverPage(filters, page)) <= cap
        /\ offset' = NextOffset(offset, page)
        /\ lpage' = page
        /\ seen' = seen \cup DisplayNames(page)
        /\ Query("page", page)
    /\ lpc' = "send"
    /\ UNCHANGED <<filters, logged, lidx, listings, pages, wpc, wbatch,
                   discovered, emitted>>
    /\ UNCHANGED <<orchVars, tasks, dlPermits, procPermits, fsVars>>

ListPage == ListPageUpTo(MaxCases)

\* packages_query: dest.send(packages).await, then flush.
ListSend ==
    /\ lpc = "send"
    /\ ChannelCanSend(pages)
    /\ pages' = Append(pages, lpage)
    /\ lpage' = <<>>
    /\ lpc' = "request"
    /\ UNCHANGED <<filters, logged, lidx, offset, seen, listings, queried,
                   wpc, wbatch, discovered, emitted>>
    /\ UNCHANGED <<orchVars, tasks, dlPermits, procPermits, fsVars>>

\* packages_query: an empty page ends the listing with Ok(()).
ListEmpty ==
    /\ lpc = "request"
    /\ Query("empty", <<>>)
    /\ NextListing("ok")
    /\ UNCHANGED <<filters, logged, pages, wpc, wbatch, discovered, emitted>>
    /\ UNCHANGED <<orchVars, tasks, dlPermits, procPermits, fsVars>>

\* packages_query returns Err (transport error, error status, no data,
\* unknown namespace or user); discover_test_cases logs it and goes on.
ListError ==
    /\ lpc = "request"
    /\ Query("error", <<>>)
    /\ NextListing("error")
    /\ UNCHANGED <<filters, logged, pages, wpc, wbatch, discovered, emitted>>
    /\ UNCHANGED <<orchVars, tasks, dlPermits, procPermits, fsVars>>

\* packages_query: a non-empty GraphQL errors array reaches todo!(); the
\* panic ends the spawned task and drops the page sender.
ListPanic ==
    /\ lpc = "request"
    /\ lpc' = "panicked"
    /\ Query("panic", <<>>)
    /\ listings' = Append(listings, "panic")
    /\ UNCHANGED <<filters, logged, lidx, offset, lpage, seen, pages, wpc,
                   wbatch, discovered, emitted>>
    /\ UNCHANGED <<orchVars, tasks, dlPermits, procPermits, fsVars>>

\* The page sender has been dropped.
PagesClosed == lpc \in {"finished", "panicked"}

\* Handler<FetchTestCases>: responses.next().await yields a page.
WapmNext ==
    /\ wpc = "next"
    /\ pages # <<>>
    /\ wbatch' = DiscoverPage(filters, Head(pages))
    /\ pages' = Tail(pages)
    /\ wpc' = IF wbatch' = <<>> THEN "next" ELSE "send"
    /\ UNCHANGED <<filters, lpc, lidx, offset, lpage, seen, listings, queried,
                   logged,
                   discovered, emitted>>
    /\ UNCHANGED <<orchVars, tasks, dlPermits, procPermits, fsVars>>

\* Handler<FetchTestCases>: recipient.send(TestCaseDiscovered(..)).await
WapmSend ==
    /\ wpc = "send"
    /\ ChannelCanSend(discovered)
    /\ discovered' = Append(discovered, Head(wbatch))
    /\ emitted' = Append(emitted, Head(wbatch))
    /\ wbatch' = Tail(wbatch)
    /\ wpc' = IF wbatch' = <<>> THEN "next" ELSE "send"
    /\ UNCHANGED <<filters, lpc, lidx, offset, lpage, seen, listings, queried,
                   logged,
                   pages>>
    /\ UNCHANGED <<orchVars, tasks, dlPermits, procPermits, fsVars>>

\* Handler<FetchTestCases>: responses.next().await yields None; the future
\* ends and drops the recipient.
WapmFinish ==
    /\ wpc = "next"
    /\ pages = <<>>
    /\ PagesClosed
    /\ wpc' = "finished"
    /\ UNCHANGED <<filters, lpc, lidx, offset, lpage, seen, listings, queried,
                   logged,
                   pages,
                   wbatch, discovered, emitted>>
    /\ UNCHANGED <<orchVars, tasks, dlPermits, procPermits, fsVars>>

ListingNext == ListPage \/ ListSend \/ ListEmpty \/ ListError \/ ListPanic
WapmLoopNext == WapmNext \/ WapmSend \/ WapmFinish

\* ---------------------------------------------------------- orchestrator

\* Faulty variant: an empty queue is taken for a closed channel.
ChannelClosed_WhenEmpty == discovered = <<>>

\* receiver.next() yields None: the queue is empty and the Wapm future has
\* dropped its Sender.
ChannelClosed == discovered = <<>> /\ wpc = "finished"

\* Faulty variant: the futures are polled only once discovery has closed.
PollsFutures_AfterBreak == opc = "collect"

\* BeginExperiment polls futures.next() in the select! loop and, after the
\* break, in futures.collect().
PollsFutures == opc \in {"loop", "collect"}

\* futures.collect().await is over: every remaining future has resolved.
RemainingCollected == \A i \in Tasks : tasks[i].pc = "collected"

\* The Report a resolved future yields (task is the future's position in
\* arrival order, kept to tell two reports of one test case apart).
ReportOf(i) ==
    [task |-> i, case |-> tasks[i].case, outcome |-> tasks[i].outcome,
     error |-> tasks[i].error, success |-> tasks[i].success]

\* The per-case async block after cache.send(FetchAssets).await: Ok gives
\* the BeginTest sent to the Runner.
OnFetchOk(t, how, webc) ==
    [t EXCEPT !.fetch = how, !.webc = webc, !.begun = TRUE, !.pc = "run_wait"]

\* Faulty variant: a failed fetch resolves the future without a Report.
OnFetchErr_NoReport(t, err) ==
    [t EXCEPT !.fetch = "err", !.error = err, !.pc = "collected"]

\* Faulty variant: BeginTest is sent although the fetch failed.
OnFetchErr_StillRuns(t, err) ==
    [t EXCEPT !.fetch = "err", !.error = err, !.begun = TRUE,
              !.pc = "run_wait"]

\* The per-case async block after cache.send(FetchAssets).await: Err gives
\* Report { outcome: FetchFailed } without contacting the Runner.
OnFetchErr(t, err) ==
    [t EXCEPT !.fetch = "err", !.error = err, !.outcome = "FetchFailed",
              !.pc = "ready"]

\* select!: reports.next() yields Some(fut); futures.push(fut). The first
\* poll of the future sends FetchAssets to the Cache.
OrchRecv ==
    /\ opc = "loop"
    /\ discovered # <<>>
    /\ tasks' = Append(tasks, NewTask(Head(discovered)))
    /\ discovered' = Tail(discovered)
    /\ UNCHANGED <<filters, lpc, lidx, offset, lpage, seen, listings, queried,
                   logged,
                   pages,
                   wpc, wbatch, emitted>>
    /\ UNCHANGED <<orchVars, dlPermits, procPermits, fsVars>>

\* select!: reports.next() yields None; break.
OrchClosed ==
    /\ opc = "loop"
    /\ ChannelClosed
    /\ opc' = "collect"
    /\ UNCHANGED <<discVars, tasks, completed, results, dlPermits,
                   procPermits, fsVars>>

\* futures.next() (or collect) yields the Report of a resolved future.
OrchCollect(i) ==
    /\ PollsFutures
    /\ tasks[i].pc = "ready"
    /\ completed' = Append(completed, ReportOf(i))
    /\ tasks' = [tasks EXCEPT ![i].pc = "collected"]
    /\ UNCHANGED <<discVars, opc, results, dlPermits, procPermits, fsVars>>

\* Results { reports: completed, .. }
OrchReturn ==
    /\ opc = "collect"
    /\ RemainingCollected
    /\ results' = completed
    /\ opc' = "done"
    /\ UNCHANGED <<discVars, tasks, completed, dlPermits, procPermits,
                   fsVars>>

\* ------------------------------------------------------------------ cache

\* Faulty variant: the download is not gated by the semaphore.
DownloadPermitAvailable_Always(permits) == TRUE

\* Semaphore::acquire on download_limiter resolves.
DownloadPermitAvailable(permits) == permits > 0

\* Faulty variant: the permit of a request is not given back.
ReleaseDownload_Leak(permits) == permits

\* Dropping _guard when the FetchAssets future returns.
ReleaseDownload(permits) == permits + 1

\* Handler<FetchAssets>: let _guard = semaphore.acquire().await?; the
\* Cache handles its messages in arrival order and the semaphore serves
\* its waiters first come, first served.
CacheAcquire(i) ==
    /\ tasks[i].pc = "fetch_wait"
    /\ \A j \in 1..(i - 1) : tasks[j].pc # "fetch_wait"
    /\ DownloadPermitAvailable(dlPermits)
    /\ dlPermits' = dlPermits - 1
    /\ tasks' = [tasks EXCEPT ![i].pc = "fetching"]
    /\ UNCHANGED <<discVars, orchVars, procPermits, fsVars>>

\* progress.send(message).await in prepare_assets.
Emit(t, message) == [t EXCEPT !.events = Append(@, message)]

\* Whose bytes the files of the destination of test case c hold: those an
\* earlier experiment left there, or those downloaded from the registry by
\* a request that has renamed its temporary directory into place.
Origin(c) ==
    IF \E j \in Tasks :
          tasks[j].case = c
          /\ (tasks[j].pc = "miss_notify" \/ tasks[j].fetch = "miss")
    THEN "downloaded" ELSE "initial"

\* Faulty variant: the download permit is kept until the Report is made,
\* so that it is held while the case waits for the Runner.
PrepareAssetsOk_KeepsPermit(i) ==
    LET c == tasks[i].case
        hit == IsHit(dest[c])
    IN  /\ tasks[i].pc = "fetching"
        /\ dest' = IF hit THEN dest ELSE [dest EXCEPT ![c] = Downloaded(c)]
        /\ tasks' = [tasks EXCEPT ![i] =
                        OnFetchOk(Emit(Emit([@ EXCEPT !.http =
                                                IF hit THEN 0
                                                ELSE Cardinality(Downloaded(c)) - 1,
                                              !.bytes =
                                                IF hit THEN Origin(c)
                                                ELSE "downloaded"],
                                            "Fetching"),
                                       IF hit THEN "CacheHit" ELSE "CacheMiss"),
                                  IF hit THEN "hit" ELSE "miss",
                                  IF hit THEN HitWebc(dest[c]) ELSE c.webc)]
        /\ dlPermits' = dlPermits
        /\ UNCHANGED <<discVars, orchVars, procPermits, dest0, dlLimit, run, builder>>

\* prepare_assets run to its Ok result without interleaving: a hit leaves
\* the cache alone, a miss publishes the downloaded directory.
PrepareAssetsOk(i) ==
    LET c == tasks[i].case
        hit == IsHit(dest[c])
    IN  /\ tasks[i].pc = "fetching"
        /\ dest' = IF hit THEN dest ELSE [dest EXCEPT ![c] = Downloaded(c)]
        /\ tasks' = [tasks EXCEPT ![i] =
                        OnFetchOk(Emit(Emit([@ EXCEPT !.http =
                                                IF hit THEN 0
                                                ELSE Cardinality(Downloaded(c)) - 1,
                                              !.bytes =
                                                IF hit THEN Origin(c)
                                                ELSE "downloaded"],
                                            "Fetching"),
                                       IF hit THEN "CacheHit" ELSE "CacheMiss"),
                                  IF hit THEN "hit" ELSE "miss",
                                  IF hit THEN HitWebc(dest[c]) ELSE c.webc)]
        /\ dlPermits' = ReleaseDownload(dlPermits)
        /\ UNCHANGED <<discVars, orchVars, procPermits, dest0, dlLimit, run, builder>>

\* prepare_assets run to an Err result (metadata, download or filesystem
\* error) that leaves the destination as it was.
PrepareAssetsErr(i) ==
    /\ tasks[i].pc = "fetching"
    /\ tasks' = [tasks EXCEPT ![i] =
                    OnFetchErr(Emit([@ EXCEPT !.http =
                                        IF IsHit(dest[tasks[i].case])
                                        THEN 0 ELSE 1],
                                    "Fetching"),
                               IF IsHit(dest[tasks[i].case])
                               THEN "metadata" ELSE "download")]
    /\ dlPermits' = ReleaseDownload(dlPermits)
    /\ UNCHANGED <<discVars, orchVars, procPermits, fsVars>>

\* --------------------------------- cache, one operation at a time

\* The requests that are between their cache miss and the end of
\* do_download.
PublishingPcs ==
    {"mktemp", "dl_tarball", "dl_webc", "remove", "mkparent", "rename"}

Publishing(j) == tasks[j].pc \in PublishingPcs

\* TempDir's Drop when do_download returns early: the directory is removed.
DropTemp(t) == [t EXCEPT !.temp = Absent]

\* prepare_assets: Fetching is sent, then
\* cache_dir.exists() && tarball_path.exists() is evaluated.
CheckHit(i) ==
    LET c == tasks[i].case
    IN  /\ tasks[i].pc = "fetching"
        /\ tasks' = [tasks EXCEPT
               ![i].events = Append(@, "Fetching"),
               ![i].pc = IF IsHit(dest[c]) THEN "hit_meta" ELSE "mktemp"]
        /\ UNCHANGED <<discVars, orchVars, dlPermits, procPermits, fsVars>>

\* prepare_assets, hit: both metadata calls succeed and give the Assets.
HitMetaOk(i) ==
    LET c == tasks[i].case
    IN  /\ tasks[i].pc = "hit_meta"
        /\ Tarball \in dest[c]
        /\ tasks' = [tasks EXCEPT ![i].webc = HitWebc(dest[c]),
                                  ![i].pc = "hit_notify"]
        /\ UNCHANGED <<discVars, orchVars, dlPermits, procPermits, fsVars>>

\* prepare_assets, hit: CacheHit is sent, then return Ok(assets).
HitReturn(i) ==
    /\ tasks[i].pc = "hit_notify"
    /\ tasks' = [tasks EXCEPT ![i] =
                    OnFetchOk(Emit([@ EXCEPT !.bytes = Origin(tasks[i].case)],
                                   "CacheHit"),
                              "hit", @.webc)]
    /\ dlPermits' = ReleaseDownload(dlPermits)
    /\ UNCHANGED <<discVars, orchVars, procPermits, fsVars>>

\* prepare_assets, hit: std::fs::metadata(&tarball_path)? fails because the
\* tarball is gone by now.
HitMetaErr(i) ==
    LET c == tasks[i].case
    IN  /\ tasks[i].pc = "hit_meta"
        /\ Tarball \notin dest[c]
        /\ tasks' = [tasks EXCEPT ![i] = OnFetchErr(@, "metadata")]
        /\ dlPermits' = ReleaseDownload(dlPermits)
        /\ UNCHANGED <<discVars, orchVars, procPermits, fsVars>>

\* do_download: create_dir_all(dir) and TempDir::new_in(dir) succeed.
MakeTemp(i) ==
    /\ tasks[i].pc = "mktemp"
    /\ tasks' = [tasks EXCEPT ![i].temp = EmptyDir, ![i].pc = "dl_tarball"]
    /\ UNCHANGED <<discVars, orchVars, dlPermits, procPermits, fsVars>>

\* do_download: create_dir_all(dir) or TempDir::new_in(dir) fails.
MakeTempErr(i) ==
    /\ tasks[i].pc = "mktemp"
    /\ tasks' = [tasks EXCEPT ![i] = OnFetchErr(@, "tempdir")]
    /\ dlPermits' = ReleaseDownload(dlPermits)
    /\ UNCHANGED <<discVars, orchVars, procPermits, fsVars>>

\* Faulty variant: the cache is looked up again after the downloads and
\* the request resolves as a hit if the destination has been filled.
Persist_UnlessCached(dir) == IF IsHit(dir) THEN "hit_meta" ELSE "remove"

\* do_download: once every file is downloaded, the temporary directory is
\* persisted whatever the destination holds.
Persist(dir) == "remove"

\* do_download: download_file writes the tarball into the temporary
\* directory.
DownloadTarballOk(i) ==
    /\ tasks[i].pc = "dl_tarball"
    /\ tasks' = [tasks EXCEPT
           ![i].temp = @ \cup {Tarball},
           ![i].http = @ + 1,
           ![i].pc = IF tasks[i].case.webc THEN "dl_webc"
                     ELSE Persist(dest[tasks[i].case])]
    /\ UNCHANGED <<discVars, orchVars, dlPermits, procPermits, fsVars>>

\* do_download: download_file of the tarball fails.
DownloadTarballErr(i) ==
    /\ tasks[i].pc = "dl_tarball"
    /\ tasks' = [tasks EXCEPT ![i] =
                    OnFetchErr(DropTemp([@ EXCEPT !.http = @ + 1]), "download")]
    /\ dlPermits' = ReleaseDownload(dlPermits)
    /\ UNCHANGED <<discVars, orchVars, procPermits, fsVars>>

\* do_download: download_file writes the webc into the temporary directory.
DownloadWebcOk(i) ==
    /\ tasks[i].pc = "dl_webc"
    /\ tasks' = [tasks EXCEPT ![i].temp = @ \cup {Webc},
                              ![i].http = @ + 1,
                              ![i].pc = Persist(dest[tasks[i].case])]
    /\ UNCHANGED <<discVars, orchVars, dlPermits, procPermits, fsVars>>

\* do_download: download_file of the webc fails.
DownloadWebcErr(i) ==
    /\ tasks[i].pc = "dl_webc"
    /\ tasks' = [tasks EXCEPT ![i] =
                    OnFetchErr(DropTemp([@ EXCEPT !.http = @ + 1]), "download")]
    /\ dlPermits' = ReleaseDownload(dlPermits)
    /\ UNCHANGED <<discVars, orchVars, procPermits, fsVars>>

\* remove_dir_all(&cache_dir): one entry of the directory is unlinked.
RemoveFile(i) ==
    LET c == tasks[i].case
    IN  /\ tasks[i].pc = "remove"
        /\ \E f \in dest[c] \ {"."} : dest' = [dest EXCEPT ![c] = @ \ {f}]
        /\ UNCHANGED <<discVars, orchVars, tasks, dlPermits, procPermits,
                       dest0, dlLimit, run, builder>>

\* remove_dir_all(&cache_dir): the emptied directory is removed.
RemoveDir(i) ==
    LET c == tasks[i].case
    IN  /\ tasks[i].pc = "remove"
        /\ dest[c] = EmptyDir
        /\ dest' = [dest EXCEPT ![c] = Absent]
        /\ tasks' = [tasks EXCEPT ![i].pc = "mkparent"]
        /\ UNCHANGED <<discVars, orchVars, dlPermits, procPermits, dest0, dlLimit, run, builder>>

\* remove_dir_all(&cache_dir) reports NotFound, which do_download ignores.
RemoveNotFound(i) ==
    LET c == tasks[i].case
    IN  /\ tasks[i].pc = "remove"
        /\ dest[c] = Absent
        /\ tasks' = [tasks EXCEPT ![i].pc = "mkparent"]
        /\ UNCHANGED <<discVars, orchVars, dlPermits, procPermits, fsVars>>

\* remove_dir_all(&cache_dir) fails with another error: "Unable to remove".
RemoveErr(i) ==
    LET c == tasks[i].case
    IN  /\ tasks[i].pc = "remove"
        /\ dest[c] # Absent
        /\ tasks' = [tasks EXCEPT ![i] = OnFetchErr(DropTemp(@), "remove")]
        /\ dlPermits' = ReleaseDownload(dlPermits)
        /\ UNCHANGED <<discVars, orchVars, procPermits, fsVars>>

\* do_download: create_dir_all(parent) succeeds.
MakeParentOk(i) ==
    /\ tasks[i].pc = "mkparent"
    /\ tasks' = [tasks EXCEPT ![i].pc = "rename"]
    /\ UNCHANGED <<discVars, orchVars, dlPermits, procPermits, fsVars>>

\* do_download: create_dir_all(parent) fails: "Unable to create".
MakeParentErr(i) ==
    /\ tasks[i].pc = "mkparent"
    /\ tasks' = [tasks EXCEPT ![i] = OnFetchErr(DropTemp(@), "mkparent")]
    /\ dlPermits' = ReleaseDownload(dlPermits)
    /\ UNCHANGED <<discVars, orchVars, procPermits, fsVars>>

\* rename(2) of a directory succeeds when the new path does not exist or is
\* an empty directory.
RenameAllowed(dir) == dir \in {Absent, EmptyDir}

\* do_download: rename(&temp, &cache_dir) succeeds and do_download returns
\* Ok(assets).
RenameOk(i) ==
    LET c == tasks[i].case
    IN  /\ tasks[i].pc = "rename"
        /\ RenameAllowed(dest[c])
        /\ dest' = [dest EXCEPT ![c] = tasks[i].temp]
        /\ tasks' = [tasks EXCEPT ![i] =
                        [DropTemp(@) EXCEPT !.webc = c.webc,
                                            !.pc = "miss_notify"]]
        /\ UNCHANGED <<discVars, orchVars, dlPermits, procPermits, dest0,
                       dlLimit, run, builder>>

\* prepare_assets, miss: CacheMiss is sent, then the Ok result is returned.
MissReturn(i) ==
    /\ tasks[i].pc = "miss_notify"
    /\ tasks' = [tasks EXCEPT ![i] =
                    OnFetchOk(Emit([@ EXCEPT !.bytes = Origin(tasks[i].case)],
                                   "CacheMiss"),
                              "miss", @.webc)]
    /\ dlPermits' = ReleaseDownload(dlPermits)
    /\ UNCHANGED <<discVars, orchVars, procPermits, fsVars>>

\* do_download: rename fails because the destination exists and is not
\* empty; the temporary directory is removed if that is possible.
RenameNotEmpty(i) ==
    LET c == tasks[i].case
    IN  /\ tasks[i].pc = "rename"
        /\ ~RenameAllowed(dest[c])
        /\ \E cleaned \in BOOLEAN :
            tasks' = [tasks EXCEPT ![i] =
                OnFetchErr(IF cleaned THEN DropTemp(@) ELSE @, "rename_not_empty")]
        /\ dlPermits' = ReleaseDownload(dlPermits)
        /\ UNCHANGED <<discVars, orchVars, procPermits, fsVars>>

\* do_download: rename fails with an I/O error; the temporary directory is
\* removed if that is possible.
RenameIoErr(i) ==
    /\ tasks[i].pc = "rename"
    /\ \E cleaned \in BOOLEAN :
        tasks' = [tasks EXCEPT ![i] =
            OnFetchErr(IF cleaned THEN DropTemp(@) ELSE @, "rename_io")]
    /\ dlPermits' = ReleaseDownload(dlPermits)
    /\ UNCHANGED <<discVars, orchVars, procPermits, fsVars>>

\* ----------------------------------------------------------------- runner

\* create_dir_all(base_dir) in setup(): base_dir lies below experiment_dir,
\* which is created with it.
CreateDirAll(dir) == dir \cup {"."}

\* Faulty variant: a Runner, and so a fresh semaphore, per BeginTest.
ProcessPermitAvailable_PerTest(permits) == TRUE

\* Semaphore::acquire on the Runner's semaphore resolves. BeginExperiment
\* starts one Runner, so every BeginTest shares this semaphore.
ProcessPermitAvailable(permits) == permits > 0

\* Faulty variant: the permit is not given back.
ReleaseProcess_Leak(permits) == permits

\* Dropping _guard when the BeginTest future returns.
ReleaseProcess(permits) == permits + 1

\* Handler<BeginTest>: let _guard = semaphore.acquire().await.unwrap();
RunAcquire(i) ==
    /\ tasks[i].pc = "run_wait"
    /\ ProcessPermitAvailable(procPermits)
    /\ procPermits' = procPermits - 1
    /\ tasks' = [tasks EXCEPT ![i].pc = "setup"]
    /\ UNCHANGED <<discVars, orchVars, dlPermits, fsVars>>

\* run_experiment: setup() returns Ok(cmd).
SetupOk(i) ==
    /\ tasks[i].pc = "setup"
    /\ tasks' = [tasks EXCEPT ![i].pc = "spawn"]
    /\ builder' = [builder EXCEPT !.dir = CreateDirAll(@)]
    /\ UNCHANGED <<discVars, orchVars, dlPermits, procPermits, dest, dest0,
                   dlLimit, run>>

\* run_experiment: setup() returns Err, before or after its
\* create_dir_all(base_dir) succeeded; Report { SetupFailed }.
SetupFail(i) ==
    /\ tasks[i].pc = "setup"
    /\ tasks' = [tasks EXCEPT ![i].pc = "ready", ![i].outcome = "SetupFailed",
                              ![i].error = "setup"]
    /\ procPermits' = ReleaseProcess(procPermits)
    /\ \E created \in BOOLEAN :
          builder' = [builder EXCEPT
                         !.dir = IF created THEN CreateDirAll(@) ELSE @]
    /\ UNCHANGED <<discVars, orchVars, dlPermits, dest, dest0, dlLimit, run>>

\* run_experiment: cmd.status() has started the child process.
SpawnOk(i) ==
    /\ tasks[i].pc = "spawn"
    /\ tasks' = [tasks EXCEPT ![i].pc = "running"]
    /\ UNCHANGED <<discVars, orchVars, dlPermits, procPermits, fsVars>>

\* Faulty variant: a process that cannot be started is reported as
\* SpawnFailed.
SpawnFail_SpawnFailed(i) ==
    /\ tasks[i].pc = "spawn"
    /\ tasks' = [tasks EXCEPT ![i].pc = "ready", ![i].outcome = "SpawnFailed",
                              ![i].error = "spawn"]
    /\ procPermits' = ReleaseProcess(procPermits)
    /\ UNCHANGED <<discVars, orchVars, dlPermits, fsVars>>

\* run_experiment: cmd.status() returns Err; Report { SetupFailed } with
\* "Unable to start".
SpawnFail(i) ==
    /\ tasks[i].pc = "spawn"
    /\ tasks' = [tasks EXCEPT ![i].pc = "ready", ![i].outcome = "SetupFailed",
                              ![i].error = "spawn"]
    /\ procPermits' = ReleaseProcess(procPermits)
    /\ UNCHANGED <<discVars, orchVars, dlPermits, fsVars>>

\* run_experiment: the child exits; Report { Completed }.
ProcessExit(i) ==
    /\ tasks[i].pc = "running"
    /\ \E ok \in BOOLEAN :
        tasks' = [tasks EXCEPT ![i].pc = "ready", ![i].outcome = "Completed",
                               ![i].success = ok]
    /\ procPermits' = ReleaseProcess(procPermits)
    /\ UNCHANGED <<discVars, orchVars, dlPermits, fsVars>>

\* ------------------------------------------- runner, one step at a time

\* BeginExperiment.base_dir, the directory of the experiment.
ExperimentDir == "exp"

\* Runner.base_dir: Runner::new(experiment, base_dir.join("experiments"))
RunnerBaseDir == Join(ExperimentDir, "experiments")

\* The home directory run_experiment asks directories::BaseDirs for.
HomeDir == "/home/u"

\* Handler<BeginTest>: base_dir.join(namespace).join(package_name)
\* .join(version)
BaseDirOf(test_case) ==
    Join(Join(Join(RunnerBaseDir, test_case.namespace),
              test_case.package_name), test_case.version)

\* setup(): base_dir.join("working")
WorkingDirOf(test_case) == Join(BaseDirOf(test_case), "working")

\* config::WasmerVersion values.
Latest == [kind |-> "Latest"]
Release == [kind |-> "Release", version |-> "3.1.0"]
Local == [kind |-> "Local", path |-> "/opt/wasmer"]

\* config::Experiment values handed to the Runner: one whose templates
\* use both scopes, a leading tilde and an unknown variable, and which sets
\* PATH itself; and one that sets nothing.
ExperimentChoices ==
    { [package |-> "wasmer/python",
       wasmer |-> [version |-> v,
                   args |-> << <<Lit("--mapdir=/w:"), Var("WORKING_DIR")>>,
                               <<Var("PKG_NAME")>> >>,
                   env |-> << <<"PATH", <<Lit("/opt/bin")>> >>,
                              <<"WEBC", <<Var("WEBC_PATH")>> >> >>],
       env |-> << <<"TARBALL", <<Var("TARBALL_PATH")>> >>,
                  <<"NAME", <<Var("PKG_NAMESPACE"), Lit("/"),
                              Var("PKG_NAME")>> >> >>,
       args |-> << <<Tilde, Lit("/"), Var("TARBALL_FILENAME")>>,
                   <<Var("WORKING_DIR")>>,
                   <<Var("WEBC_FILENAME")>> >>] : v \in {Latest, Local} }
    \cup
    { [package |-> "wasmer/python",
       wasmer |-> [version |-> Release, args |-> <<>>, env |-> <<>>],
       env |-> <<>>,
       args |-> <<>>] }

\* The environment of the process running the experiment.
ParentEnvChoices ==
    { [n \in {"PATH", "WASMER_DIR", "SECRET"} |->
          CASE n = "PATH" -> "/usr/bin"
            [] n = "WASMER_DIR" -> "/w"
            [] n = "SECRET" -> "s3cr3t"],
      [n \in {"PATH", "SECRET"} |->
          CASE n = "PATH" -> "/usr/bin" [] n = "SECRET" -> "s3cr3t"],
      [n \in {"SECRET"} |-> "s3cr3t"] }

\* cache::Assets the Cache may answer FetchAssets with: the webc is there
\* when prepare_assets found or downloaded the file, and a cache hit finds
\* none where an earlier run left the tarball alone.
AssetsChoices(test_case) ==
    { [tarball |-> "cache/package.tar.gz", webc |-> w] :
        w \in IF test_case.webc
              THEN {None, Some("cache/package.webc")}
              ELSE {None} }

\* What base_dir holds before setup(): nothing, or what an earlier run of
\* the experiment directory left there.
BaseDirChoices == {Absent, {".", "stdout.txt", "old.txt"}}

\* No BeginTest is being followed step by step.
Idle == [pc |-> "idle"]

\* A BeginTest message whose future has acquired the semaphore.
BeginTest(experiment, test_case, assets, parent, dir) ==
    [pc |-> "remove",
     experiment |-> experiment,
     test_case |-> test_case,
     assets |-> assets,
     parent |-> parent,
     base_dir |-> dir,          \* the entries of base_dir on disk
     env |-> None,              \* the Env setup() has built
     cmd |-> None,              \* the Command setup() has built
     outcome |-> "none",        \* the Outcome of the Report
     failed |-> "none"]         \* the step that returned the error

\* run_experiment: setup() returned Err at `step`; the Report carries
\* SetupFailed { base_dir, error }.
SetupFailedAt(step) ==
    [run EXCEPT !.pc = "reported", !.outcome = "SetupFailed", !.failed = step]

\* setup(): if base_dir.exists() { remove_dir_all(base_dir)? }. A failing
\* remove_dir_all leaves any part of the directory behind.
SetupRemove ==
    /\ run.pc = "remove"
    /\ \/ /\ "." \notin run.base_dir
          /\ run' = [run EXCEPT !.pc = "create"]
       \/ /\ "." \in run.base_dir
          /\ run' = [run EXCEPT !.pc = "create", !.base_dir = Absent]
       \/ /\ "." \in run.base_dir
          /\ \E left \in SUBSET (run.base_dir \ {"."}) :
                run' = [SetupFailedAt("remove") EXCEPT
                            !.base_dir = left \cup {"."}]
    /\ UNCHANGED <<discVars, orchVars, tasks, dlPermits, procPermits, dest,
                   dest0, dlLimit, builder>>

\* One step of setup() that creates `entry` in base_dir or returns its
\* error.
SetupStep(at, entry, then) ==
    /\ run.pc = at
    /\ \/ run' = [run EXCEPT !.pc = then, !.base_dir = @ \cup {entry}]
       \/ run' = SetupFailedAt(at)
    /\ UNCHANGED <<discVars, orchVars, tasks, dlPermits, procPermits, dest,
                   dest0, dlLimit, builder>>

\* setup(): create_dir_all(base_dir)?
SetupCreateBase ==
    /\ run.pc = "create"
    /\ \/ /\ run' = [run EXCEPT !.pc = "write", !.base_dir = @ \cup {"."}]
          /\ builder' = [builder EXCEPT !.dir = CreateDirAll(@)]
       \/ /\ run' = SetupFailedAt("create")
          /\ UNCHANGED builder
    /\ UNCHANGED <<discVars, orchVars, tasks, dlPermits, procPermits, dest,
                   dest0, dlLimit>>

\* setup(): tokio::fs::write(base_dir.join("test_case.json"), json)?
SetupWriteTestCase == SetupStep("write", "test_case.json", "working")

\* setup(): create_dir_all(&working_dir)?
SetupCreateWorking == SetupStep("working", "working", "tarball")

\* setup(): symlink(&assets.tarball, working_dir.join("package.tar.gz"))?
SetupLinkTarball == SetupStep("tarball", "working/package.tar.gz", "webc")

\* setup(): if let Some(webc) = &assets.webc { symlink(webc, ...)? }
SetupLinkWebc ==
    \/ /\ run.pc = "webc"
       /\ run.assets.webc = None
       /\ run' = [run EXCEPT !.pc = "stdout"]
       /\ UNCHANGED <<discVars, orchVars, tasks, dlPermits, procPermits,
                      dest, dest0, dlLimit, builder>>
    \/ /\ run.assets.webc # None
       /\ SetupStep("webc", "working/package.webc", "stdout")

\* setup(): File::create(base_dir.join("stdout.txt"))?
SetupStdout == SetupStep("stdout", "stdout.txt", "stderr")

\* setup(): File::create(base_dir.join("stderr.txt"))?
SetupStderr == SetupStep("stderr", "stderr.txt", "command")

\* setup(): Env::new, Command::new, current_dir, env_clear, the cmd.env
\* and cmd.arg calls, Ok(cmd).
SetupCommand ==
    /\ run.pc = "command"
    /\ LET env == EnvNew(WorkingDirOf(run.test_case), run.test_case)
       IN  run' = [run EXCEPT
                !.pc = "spawn",
                !.env = Some(env),
                !.cmd = Some(
                    [program |-> CommandProgram(run.experiment),
                     current_dir |-> BaseDirOf(run.test_case),
                     args |-> CommandArgs(run.experiment, HomeDir, env),
                     envs |-> CommandEnvs(run.experiment, run.parent,
                                          HomeDir, env)])]
    /\ UNCHANGED <<discVars, orchVars, tasks, dlPermits, procPermits, dest,
                   dest0, dlLimit, builder>>

\* run_experiment: cmd.status() returns the exit status, Completed, or
\* cannot start the program, SetupFailed.
SetupSpawn ==
    /\ run.pc = "spawn"
    /\ \/ run' = [run EXCEPT !.pc = "reported", !.outcome = "Completed"]
       \/ run' = SetupFailedAt("spawn")
    /\ UNCHANGED <<discVars, orchVars, tasks, dlPermits, procPermits, dest,
                   dest0, dlLimit, builder>>

\* --------------------------------------------------------- specifications

\* The experiment starts with nothing cached.
EmptyCache == [c \in AllCases |-> Absent]

\* The state BeginExperiment starts from, permits apart: nothing
\* discovered, an empty cache directory.
NothingDiscovered ==
    /\ lpc = "request"
    /\ lidx = 1
    /\ offset = 0
    /\ lpage = <<>>
    /\ seen = {}
    /\ listings = <<>>
    /\ queried = <<>>
    /\ pages = <<>>
    /\ wpc = "next"
    /\ wbatch = <<>>
    /\ discovered = <<>>
    /\ emitted = <<>>
    /\ opc = "loop"
    /\ tasks = <<>>
    /\ completed = <<>>
    /\ results = <<>>
    /\ dest = EmptyCache
    /\ dest0 = dest
    /\ run = Idle

\* Cache::new and Runner::new: every permit of the two semaphores is free.
Permits(downloads, processes) ==
    /\ dlLimit = downloads
    /\ dlPermits = dlLimit
    /\ procPermits = processes

\* The state BeginExperiment starts from: nothing discovered, every permit
\* free, an empty cache directory.
Constructed == NothingDiscovered /\ Permits(DownloadLimit, ProcessLimit)

\* ExperimentBuilder::run before block_on returns, with experiment_dir as
\* it is on disk.
\* Filters::is_empty, the skip_serializing_if of Experiment.filters.
FiltersIsEmpty(f) == f.namespaces = <<>> /\ f.blacklist = {}

\* Serialize for Filters: a JSON object with kebab-case keys; an empty
\* list and a false include_every_version are left out.
SerializeFilters(f) ==
    LET keys == {k \in {"namespaces", "users", "blacklist",
                        "include-every-version"} :
                    CASE k = "namespaces" -> f.namespaces # <<>>
                      [] k = "users" -> f.users # <<>>
                      [] k = "blacklist" -> f.blacklist # {}
                      [] OTHER -> f.include_every_version}
    IN  [k \in keys |->
            CASE k = "namespaces" -> f.namespaces
              [] k = "users" -> f.users
              [] k = "blacklist" -> f.blacklist
              [] OTHER -> f.include_every_version]

\* A field with #[serde(default)]: its value, or the default when the key
\* is missing.
FieldOr(json, key, default) == IF key \in DOMAIN json THEN json[key] ELSE default

\* Deserialize for Filters.
DeserializeFilters(json) ==
    [namespaces |-> FieldOr(json, "namespaces", <<>>),
     users |-> FieldOr(json, "users", <<>>),
     blacklist |-> FieldOr(json, "blacklist", {}),
     include_every_version |-> FieldOr(json, "include-every-version", FALSE)]

\* should_show_wasmer_config, the skip_serializing_if of Experiment.wasmer
\* (true when the field is to be skipped).
should_show_wasmer_config(cfg) ==
    cfg.version = Latest /\ cfg.args = <<>> /\ cfg.env = <<>>

\* Serialize for WasmerVersion, an untagged enum: Local is an object with
\* its path, Release the version as a string, Latest null.
SerializeWasmerVersion(v) ==
    CASE v.kind = "Local" -> [json |-> "object", path |-> v.path]
      [] v.kind = "Release" -> [json |-> "string", value |-> v.version]
      [] OTHER -> [json |-> "null"]

\* Deserialize for WasmerVersion: the variants are tried in order.
DeserializeWasmerVersion(j) ==
    IF j.json = "object" /\ "path" \in DOMAIN j
    THEN [kind |-> "Local", path |-> j.path]
    ELSE IF j.json = "string" THEN [kind |-> "Release", version |-> j.value]
    ELSE [kind |-> "Latest"]

\* Serialize for WasmerConfig: version is left out when Latest, env when
\* empty; args is always written.
SerializeWasmerConfig(cfg) ==
    LET keys == {k \in {"version", "args", "env"} :
                    CASE k = "version" -> cfg.version # Latest
                      [] k = "env" -> cfg.env # <<>>
                      [] OTHER -> TRUE}
    IN  [k \in keys |->
            CASE k = "version" -> SerializeWasmerVersion(cfg.version)
              [] k = "env" -> cfg.env
              [] OTHER -> cfg.args]

\* Deserialize for WasmerConfig.
DeserializeWasmerConfig(json) ==
    [version |-> IF "version" \in DOMAIN json
                 THEN DeserializeWasmerVersion(json["version"]) ELSE Latest,
     args |-> json["args"],
     env |-> FieldOr(json, "env", <<>>)]

\* WasmerConfig::default()
DefaultWasmerConfig == [version |-> Latest, args |-> <<>>, env |-> <<>>]

\* Filters::default()
DefaultFilters ==
    [namespaces |-> <<>>, users |-> <<>>, blacklist |-> {},
     include_every_version |-> FALSE]

\* Serialize for Experiment: package is always written; command, args,
\* env, wasmer and filters are left out when their skip_serializing_if
\* holds.
SerializeExperiment(e) ==
    LET keys == {k \in {"package", "command", "args", "env", "wasmer",
                        "filters"} :
                    CASE k = "command" -> e.command # None
                      [] k = "args" -> e.args # <<>>
                      [] k = "env" -> e.env # <<>>
                      [] k = "wasmer" -> ~should_show_wasmer_config(e.wasmer)
                      [] k = "filters" -> ~FiltersIsEmpty(e.filters)
                      [] OTHER -> TRUE}
    IN  [k \in keys |->
            CASE k = "command" -> e.command[1]
              [] k = "args" -> e.args
              [] k = "env" -> e.env
              [] k = "wasmer" -> SerializeWasmerConfig(e.wasmer)
              [] k = "filters" -> SerializeFilters(e.filters)
              [] OTHER -> e.package]

\* Deserialize for Experiment.
DeserializeExperiment(json) ==
    [package |-> json["package"],
     command |-> IF "command" \in DOMAIN json THEN Some(json["command"])
                 ELSE None,
     args |-> FieldOr(json, "args", <<>>),
     env |-> FieldOr(json, "env", <<>>),
     wasmer |-> IF "wasmer" \in DOMAIN json
                THEN DeserializeWasmerConfig(json["wasmer"])
                ELSE DefaultWasmerConfig,
     filters |-> IF "filters" \in DOMAIN json
                 THEN DeserializeFilters(json["filters"])
                 ELSE DefaultFilters]

\* The Experiment document: what the runner is given of it, the command
\* and the filters Discovery works with.
ExperimentWith(e, command, f) ==
    [package |-> e.package, command |-> command, args |-> e.args,
     env |-> e.env, wasmer |-> e.wasmer, filters |-> f]

\* Every Experiment considered.
Experiments ==
    {ExperimentWith(e, command, f) :
        e \in ExperimentChoices, command \in {None, Some("python")},
        f \in LoggedFilterChoices}

\* The Experiment of BeginExperiment: the package is run as it is, on the
\* test cases the filters select.
BegunExperiment ==
    ExperimentWith([package |-> "wasmer/python", args |-> <<>>, env |-> <<>>,
                    wasmer |-> DefaultWasmerConfig],
                   None, filters)

\* ExperimentBuilder with its experiment_dir; json is what has been
\* written to results.json of Results.experiment.
NewBuilder(dir) ==
    [pc |-> "block_on", dir |-> dir, result |-> "none", json |-> None]

\* The caller gave an experiment_dir that exists.
Init ==
    /\ filters \in FilterChoices
    /\ Constructed
    /\ logged = FALSE
    /\ builder = NewBuilder(EmptyDir)

\* The state a logged experiment starts from, with the registry requests
\* kept in queried.
InitLogged ==
    /\ filters \in LoggedFilterChoices
    /\ Constructed
    /\ logged = TRUE
    /\ builder = NewBuilder(EmptyDir)

OrchNext ==
    OrchRecv \/ OrchClosed \/ OrchReturn \/ \E i \in Tasks : OrchCollect(i)

FetchNext(i) == CacheAcquire(i) \/ PrepareAssetsOk(i) \/ PrepareAssetsErr(i)

RunNext(i) ==
    \/ RunAcquire(i)
    \/ SetupOk(i)
    \/ SetupFail(i)
    \/ SpawnOk(i)
    \/ SpawnFail(i)
    \/ ProcessExit(i)

Next ==
    \/ ListPage
    \/ ListSend
    \/ ListEmpty
    \/ ListError
    \/ ListPanic
    \/ WapmNext
    \/ WapmSend
    \/ WapmFinish
    \/ OrchRecv
    \/ OrchClosed
    \/ OrchReturn
    \/ \E i \in Tasks : OrchCollect(i)
    \/ \E i \in Tasks : CacheAcquire(i)
    \/ \E i \in Tasks : PrepareAssetsOk(i)
    \/ \E i \in Tasks : PrepareAssetsErr(i)
    \/ \E i \in Tasks : RunAcquire(i)
    \/ \E i \in Tasks : SetupOk(i)
    \/ \E i \in Tasks : SetupFail(i)
    \/ \E i \in Tasks : SpawnOk(i)
    \/ \E i \in Tasks : SpawnFail(i)
    \/ \E i \in Tasks : ProcessExit(i)

Spec == Init /\ [][Next]_vars

\* Discovery up to the arrival of the test cases in the orchestrator: the
\* listing task, the Wapm loop and the receiving side of the select! loop.
\* What the futures do after that has no effect on any of them.
NextDiscovery ==
    \/ ListPage
    \/ ListSend
    \/ ListEmpty
    \/ ListError
    \/ ListPanic
    \/ WapmNext
    \/ WapmSend
    \/ WapmFinish
    \/ OrchRecv
    \/ OrchClosed

\* Discovery with the history of registry requests.
SpecLogged == InitLogged /\ [][NextDiscovery]_vars

\* The test cases requested of the Cache in SpecCache: one with a webc URL
\* and one without.
CacheCases ==
    {NewTestCase(Hostname, "a", "x", V2), NewTestCase(Hostname, "a", "x", V1)}

\* The cache directories SpecCache starts from: nothing cached, a complete
\* entry, or an entry whose tarball is missing, as an earlier experiment
\* leaves it when remove_dir_all fails half way (RemoveFile, RemoveErr).
InitialCaches ==
    { EmptyCache,
      [EmptyCache EXCEPT ![NewTestCase(Hostname, "a", "x", V2)] =
          {".", Tarball, Webc}],
      [EmptyCache EXCEPT ![NewTestCase(Hostname, "a", "x", V2)] =
          {".", Webc}] }

\* A FetchAssets message is sent to the Cache; the requests of one
\* execution are for the same test case, except that the last one may be
\* for another, sent once the earlier ones have returned.
SubmitFetch ==
    /\ Len(tasks) < MaxRequests
    /\ \E c \in CacheCases :
        /\ (tasks # <<>> /\ c # tasks[1].case) =>
               /\ Len(tasks) + 1 = MaxRequests
               /\ \A i \in Tasks : tasks[i].fetch # "none"
        /\ tasks' = Append(tasks, NewTask(c))
    /\ UNCHANGED <<discVars, orchVars, dlPermits, procPermits, fsVars>>

InitCache ==
    /\ filters \in {f \in FilterChoices : f.users # <<>>}
    /\ lpc = "finished"
    /\ lidx = Len(Plan(filters)) + 1
    /\ offset = 0
    /\ lpage = <<>>
    /\ seen = {}
    /\ listings = <<"ok", "ok">>
    /\ queried = <<>>
    /\ logged = FALSE
    /\ pages = <<>>
    /\ wpc = "finished"
    /\ wbatch = <<>>
    /\ discovered = <<>>
    /\ emitted = <<>>
    /\ opc = "loop"
    /\ tasks = <<>>
    /\ completed = <<>>
    /\ results = <<>>
    /\ dlLimit \in {1, DownloadLimit}
    /\ dlPermits = dlLimit
    /\ procPermits = ProcessLimit
    /\ dest \in InitialCaches
    /\ dest0 = dest
    /\ run = Idle
    /\ builder = NewBuilder(EmptyDir)

NextCache ==
    \/ SubmitFetch
    \/ \E i \in Tasks : CacheAcquire(i)
    \/ \E i \in Tasks : CheckHit(i)
    \/ \E i \in Tasks : HitMetaOk(i)
    \/ \E i \in Tasks : HitMetaErr(i)
    \/ \E i \in Tasks : HitReturn(i)
    \/ \E i \in Tasks : MakeTemp(i)
    \/ \E i \in Tasks : MakeTempErr(i)
    \/ \E i \in Tasks : DownloadTarballOk(i)
    \/ \E i \in Tasks : DownloadTarballErr(i)
    \/ \E i \in Tasks : DownloadWebcOk(i)
    \/ \E i \in Tasks : DownloadWebcErr(i)
    \/ \E i \in Tasks : RemoveFile(i)
    \/ \E i \in Tasks : RemoveDir(i)
    \/ \E i \in Tasks : RemoveNotFound(i)
    \/ \E i \in Tasks : RemoveErr(i)
    \/ \E i \in Tasks : MakeParentOk(i)
    \/ \E i \in Tasks : MakeParentErr(i)
    \/ \E i \in Tasks : RenameOk(i)
    \/ \E i \in Tasks : MissReturn(i)
    \/ \E i \in Tasks : RenameNotEmpty(i)
    \/ \E i \in Tasks : RenameIoErr(i)

SpecCache == InitCache /\ [][NextCache]_vars

\* A step of the FetchAssets future of request i, from acquiring the permit
\* to returning.
PrepareNext(i) ==
    \/ CacheAcquire(i)
    \/ CheckHit(i)
    \/ HitMetaOk(i)
    \/ HitMetaErr(i)
    \/ HitReturn(i)
    \/ MakeTemp(i)
    \/ MakeTempErr(i)
    \/ DownloadTarballOk(i)
    \/ DownloadTarballErr(i)
    \/ DownloadWebcOk(i)
    \/ DownloadWebcErr(i)
    \/ RemoveFile(i)
    \/ RemoveDir(i)
    \/ RemoveNotFound(i)
    \/ RemoveErr(i)
    \/ MakeParentOk(i)
    \/ MakeParentErr(i)
    \/ RenameOk(i)
    \/ MissReturn(i)
    \/ RenameNotEmpty(i)
    \/ RenameIoErr(i)

\* The Cache and Runner steps of the future of test case i.
TaskNext(i) == i \in Tasks /\ (FetchNext(i) \/ RunNext(i))

\* Every task of the pipeline is scheduled fairly: the registry answers
\* each request, every download and every child process ends.
SpecFair ==
    /\ Spec
    /\ WF_vars(ListingNext)
    /\ WF_vars(WapmLoopNext)
    /\ WF_vars(OrchNext)
    /\ \A i \in 1..MaxCases : WF_vars(TaskNext(i))

\* The orchestrator and the Wapm loop are scheduled fairly, while the
\* registry may leave a request unanswered and a download or a child
\* process may run for ever.
SpecOverlap ==
    /\ Spec
    /\ WF_vars(WapmLoopNext)
    /\ WF_vars(OrchNext)

\* std::thread::available_parallelism() of the machines explored: not
\* known, one core, two cores.
ParallelismChoices == {None, Some(1), Some(2)}

\* Runner::new: available_parallelism().unwrap_or(4).get()
RunnerPermits(parallelism) ==
    IF parallelism # None THEN parallelism[1] ELSE DefaultProcesses

\* Cache::new: available_parallelism().map(|p| p.get())
\* .unwrap_or(DEFAULT_CONCURRENT_DOWNLOADS)
CachePermits(parallelism) ==
    IF parallelism # None THEN parallelism[1]
    ELSE DEFAULT_CONCURRENT_DOWNLOADS

\* The experiment that lists namespace "a" and user "a".
NamespaceAndUser ==
    [namespaces |-> <<"a">>, users |-> <<"a">>, blacklist |-> {},
     include_every_version |-> FALSE]

\* The pipeline with the semaphores sized as Cache::new and Runner::new
\* size them on the machine at hand.
InitMachine ==
    /\ filters = NamespaceAndUser
    /\ NothingDiscovered
    /\ logged = FALSE
    /\ builder = NewBuilder(EmptyDir)
    /\ \E parallelism \in ParallelismChoices :
          Permits(CachePermits(parallelism), RunnerPermits(parallelism))

SpecMachine == InitMachine /\ [][Next]_vars

\* The permits of the semaphores on a machine with one core.
OneCore == Some(1)

\* One test case more than the channel between Wapm and the orchestrator
\* and the two semaphores of a one-core machine hold together.
Backlog == ChannelBuffer + CachePermits(OneCore) + RunnerPermits(OneCore) + 1

\* The experiment that lists every version of the packages of namespace
\* "a" and of user "a".
EveryVersionTwice ==
    [namespaces |-> <<"a">>, users |-> <<"a">>, blacklist |-> {},
     include_every_version |-> TRUE]

\* A one-core machine and a registry with Backlog test cases.
InitBacklog ==
    /\ filters = EveryVersionTwice
    /\ NothingDiscovered
    /\ logged = FALSE
    /\ builder = NewBuilder(EmptyDir)
    /\ Permits(CachePermits(OneCore), RunnerPermits(OneCore))

\* The executions in which no request, download, setup or spawn fails.
NextBacklog ==
    \/ ListPageUpTo(Backlog)
    \/ ListSend
    \/ ListEmpty
    \/ WapmNext
    \/ WapmSend
    \/ WapmFinish
    \/ OrchRecv
    \/ OrchClosed
    \/ OrchReturn
    \/ \E i \in Tasks : OrchCollect(i)
    \/ \E i \in Tasks : CacheAcquire(i)
    \/ \E i \in Tasks : PrepareAssetsOk(i)
    \/ \E i \in Tasks : RunAcquire(i)
    \/ \E i \in Tasks : SetupOk(i)
    \/ \E i \in Tasks : SpawnOk(i)
    \/ \E i \in Tasks : ProcessExit(i)

SpecBacklog == InitBacklog /\ [][NextBacklog]_vars

\* The Runner alone: one BeginTest, for any experiment, test case, assets
\* of the Cache, parent environment and earlier content of base_dir, taken
\* through setup() and cmd.status() one step at a time.
InitSetup ==
    /\ filters \in {f \in FilterChoices : f.users # <<>>}
    /\ lpc = "finished"
    /\ lidx = Len(Plan(filters)) + 1
    /\ offset = 0
    /\ lpage = <<>>
    /\ seen = {}
    /\ listings = <<"ok", "ok">>
    /\ queried = <<>>
    /\ logged = FALSE
    /\ pages = <<>>
    /\ wpc = "finished"
    /\ wbatch = <<>>
    /\ discovered = <<>>
    /\ emitted = <<>>
    /\ opc = "loop"
    /\ tasks = <<>>
    /\ completed = <<>>
    /\ results = <<>>
    /\ dlLimit = DownloadLimit
    /\ dlPermits = dlLimit
    /\ procPermits = ProcessLimit
    /\ dest = EmptyCache
    /\ dest0 = dest
    /\ builder = NewBuilder(EmptyDir)
    /\ \E experiment \in ExperimentChoices, test_case \in CacheCases,
          parent \in ParentEnvChoices, dir \in BaseDirChoices :
          \E assets \in AssetsChoices(test_case) :
             run = BeginTest(experiment, test_case, assets, parent, dir)

NextSetup ==
    \/ SetupRemove
    \/ SetupCreateBase
    \/ SetupWriteTestCase
    \/ SetupCreateWorking
    \/ SetupLinkTarball
    \/ SetupLinkWebc
    \/ SetupStdout
    \/ SetupStderr
    \/ SetupCommand
    \/ SetupSpawn

SpecSetup == InitSetup /\ [][NextSetup]_vars

\* ExperimentBuilder::run: system.block_on(orchestrator.send(
\* BeginExperiment).await)? has returned the Results.
BuilderBlockOn ==
    /\ builder.pc = "block_on"
    /\ opc = "done"
    /\ builder' = [builder EXCEPT !.pc = "html"]
    /\ UNCHANGED <<discVars, orchVars, tasks, dlPermits, procPermits, dest,
                   dest0, dlLimit, run>>

\* std::fs::write(experiment_dir.join(name), ..)?: the file is created in
\* a directory that exists, and the call fails where there is none.
BuilderWrite(at, name, then) ==
    /\ builder.pc = at
    /\ builder' =
          IF "." \in builder.dir
          THEN [builder EXCEPT !.pc = then, !.dir = @ \cup {name},
                               !.result = IF then = "returned" THEN "Ok"
                                          ELSE @]
          ELSE [builder EXCEPT !.pc = "returned", !.result = "Err"]
    /\ UNCHANGED <<discVars, orchVars, tasks, dlPermits, procPermits, dest,
                   dest0, dlLimit, run>>

\* ExperimentBuilder::run: render::html(&results)?, then
\* std::fs::write(reports_html, report)?
BuilderWriteHtml == BuilderWrite("html", "report.html", "json")

\* ExperimentBuilder::run: serde_json::to_string_pretty(&results)?,
\* std::fs::write(reports_json, json)?, Ok(results)
BuilderWriteJson ==
    /\ builder.pc = "json"
    /\ builder' =
          IF "." \in builder.dir
          THEN [builder EXCEPT !.pc = "returned",
                               !.dir = @ \cup {"results.json"},
                               !.result = "Ok",
                               !.json = Some(SerializeExperiment(BegunExperiment))]
          ELSE [builder EXCEPT !.pc = "returned", !.result = "Err"]
    /\ UNCHANGED <<discVars, orchVars, tasks, dlPermits, procPermits, dest,
                   dest0, dlLimit, run>>

\* The whole of ExperimentBuilder::run: experiment_dir is a directory
\* that exists, or, as the default under data_local_dir with a fresh
\* uuid, one that does not.
InitRun ==
    /\ filters \in FilterChoices
    /\ Constructed
    /\ logged = FALSE
    /\ \E dir \in {Absent, EmptyDir} : builder = NewBuilder(dir)

NextRun == Next \/ BuilderBlockOn \/ BuilderWriteHtml \/ BuilderWriteJson

SpecRun == InitRun /\ [][NextRun]_vars

\* ------------------------------------------------------------------ claims

\* The FetchAssets requests that are inside download_file.
Downloading == {i \in Tasks : tasks[i].pc \in {"dl_tarball", "dl_webc"}}

\* The requests made for test case c.
RequestsFor(c) == {i \in Tasks : tasks[i].case = c}

\* C7: at every instant the number of FetchAssets requests performing a
\* network download is at most the permit count of download_limiter.
C7_DownloadsBounded == Cardinality(Downloading) <= dlLimit

\* C7 witness: as many downloads as there are permits are in progress while
\* a further request waits for a permit.
C7_Witness ==
    /\ dlLimit = DownloadLimit
    /\ Cardinality(Downloading) = dlLimit
    /\ \E i \in Tasks : tasks[i].pc = "fetch_wait"

\* Request i evaluates the hit check in this step.
ChecksHit(i) ==
    /\ i \in Tasks
    /\ tasks[i].pc = "fetching"
    /\ tasks'[i].pc \in {"hit_meta", "mktemp"}

\* Another request is between its cache miss and the end of do_download
\* for the test case of request i.
PublishedConcurrently(i) ==
    \E j \in Tasks \ {i} : tasks[j].case = tasks[i].case /\ Publishing(j)

\* C9: a request that performs the hit check while another request is
\* publishing the same test case sees no destination directory, or one
\* holding every downloaded file (or the directory the cache started with,
\* when no request has touched it): never a partly written or partly
\* removed one.
C9_HitCheckSeesAllOrNothing ==
    [][\A i \in 1..MaxRequests :
          ChecksHit(i) /\ PublishedConcurrently(i)
              => dest[tasks[i].case] \in
                    {Absent, Downloaded(tasks[i].case), dest0[tasks[i].case]}
      ]_vars

\* Request i missed the cache, downloaded every file and met no I/O error
\* of the environment: it returned Ok, or its rename found the destination
\* occupied.
MissedAndDownloaded(i) ==
    tasks[i].fetch = "miss" \/ tasks[i].error = "rename_not_empty"

\* C10: when exactly two requests were made for a test case, both missed
\* the cache and both downloaded every file, both return Ok and the
\* destination holds every downloaded file once both have returned.
C10_BothConcurrentMissesSucceed ==
    \A c \in CacheCases :
        \A i, j \in RequestsFor(c) :
            ( /\ i # j
              /\ Cardinality(RequestsFor(c)) = 2
              /\ MissedAndDownloaded(i)
              /\ MissedAndDownloaded(j) )
            => ( /\ tasks[i].fetch = "miss"
                 /\ tasks[j].fetch = "miss"
                 /\ dest[c] = Downloaded(c) )

\* The FetchAssets future of request i returns Ok(AssetsFetched) in this
\* step.
ReturnsAssets(i) ==
    /\ i \in Tasks
    /\ tasks[i].fetch = "none"
    /\ tasks'[i].fetch \in {"hit", "miss"}

\* C11: when FetchAssets returns Assets, on a hit or on a miss, the
\* tarball, and the webc when Assets names one, exist in the destination
\* directory at that moment.
C11_ReturnedAssetsExist ==
    [][\A i \in 1..MaxRequests :
          ReturnsAssets(i)
              => /\ Tarball \in dest'[tasks[i].case]
                 /\ tasks'[i].webc => Webc \in dest'[tasks[i].case]
      ]_vars

\* Request i has downloaded every file into its TempDir and has not yet
\* renamed it: the steps of do_download between the downloads and the
\* rename.
BeforeRename(i) == tasks[i].pc \in {"remove", "mkparent", "rename"}

\* No other request has got as far as touching the destination directory.
OnlyWriter(i) ==
    \A j \in Tasks \ {i} :
        tasks[j].pc \in {"fetch_wait", "fetching", "hit_meta", "hit_notify",
                         "mktemp", "dl_tarball", "dl_webc"}
        /\ tasks[j].fetch = "none"

\* C12: at every point between the end of the downloads and the rename,
\* where the process may be interrupted, the destination directory does
\* not exist or is as it was before the request started.
C12_InterruptLeavesDestination ==
    \A i \in Tasks :
        BeforeRename(i) /\ OnlyWriter(i)
            => dest[tasks[i].case] \in {Absent, dest0[tasks[i].case]}

\* Request i takes a step of the hit path of prepare_assets: the hit check
\* that finds the tarball, the metadata calls, CacheHit and the return.
HitPathStep(i) ==
    /\ i \in Tasks
    /\ tasks'[i] # tasks[i]
    /\ \/ tasks[i].pc \in {"hit_meta", "hit_notify"}
       \/ tasks[i].pc = "fetching" /\ tasks'[i].pc = "hit_meta"

\* C13: a request that resolves as a cache hit has made no HTTP request,
\* and no step of the hit path changes the cache directory: the
\* destinations stay as they are and no temporary directory is created.
C13_HitIsPure ==
    /\ [](\A i \in Tasks :
            tasks[i].fetch = "hit" => tasks[i].http = 0 /\ tasks[i].temp = Absent)
    /\ [][\A i \in 1..MaxRequests :
            HitPathStep(i)
                => /\ dest' = dest
                   /\ tasks'[i].temp = tasks[i].temp
                   /\ tasks'[i].http = tasks[i].http
         ]_vars

\* C13 witness: a request resolved as a hit on what an earlier request of
\* the same execution downloaded.
C13_Witness ==
    \E i, j \in Tasks :
        /\ tasks[i].fetch = "hit"
        /\ tasks[i].http = 0
        /\ tasks[j].fetch = "miss"
        /\ tasks[j].http > 0
        /\ dest[tasks[i].case] = Downloaded(tasks[i].case)

\* The Assets a request returned, with whose bytes the files held then.
AssetsOf(t) ==
    [tarball |-> TarballPath(CacheRoot, t.case),
     webc |-> IF t.webc THEN Some(WebcPath(CacheRoot, t.case)) ELSE None,
     bytes |-> t.bytes]

\* Test cases that agree with a case of the registry on registry,
\* namespace, package_name and version, with either distribution.
PathCases == {[c EXCEPT !.webc = w] : c \in CacheCases, w \in BOOLEAN}

\* C14: the paths of the Assets depend only on the cache root and on
\* (registry, namespace, package_name, version); and when the requests run
\* one after the other (one download permit), any two requests for a test
\* case that returned Assets returned the same paths and the same bytes.
C14_SuccessiveFetchesAgree ==
    /\ \A c1, c2 \in PathCases :
          ( /\ c1.registry = c2.registry
            /\ c1.namespace = c2.namespace
            /\ c1.package_name = c2.package_name
            /\ c1.version = c2.version )
          => /\ TarballPath(CacheRoot, c1) = TarballPath(CacheRoot, c2)
             /\ WebcPath(CacheRoot, c1) = WebcPath(CacheRoot, c2)
    /\ dlLimit = 1 =>
          \A i, j \in Tasks :
              ( /\ tasks[i].case = tasks[j].case
                /\ tasks[i].fetch \in {"hit", "miss"}
                /\ tasks[j].fetch \in {"hit", "miss"} )
              => AssetsOf(tasks[i]) = AssetsOf(tasks[j])

\* C14 witness: with one permit, a request downloaded a case with a webc
\* and the next request for it was a hit.
C14_Witness ==
    /\ dlLimit = 1
    /\ \E i, j \in Tasks :
          /\ i < j
          /\ tasks[i].fetch = "miss"
          /\ tasks[j].fetch = "hit"
          /\ tasks[i].webc
          /\ AssetsOf(tasks[i]) = AssetsOf(tasks[j])

\* The terminal progress event the outcome of a request calls for.
TerminalEvent(how) ==
    CASE how = "hit" -> "CacheHit"
      [] how = "miss" -> "CacheMiss"
      [] how = "err" -> "DownloadFailed"

\* C15: for every FetchAssets request that has completed, the progress
\* events sent for it are Fetching followed by exactly one terminal event:
\* CacheHit on a hit, CacheMiss on a successful download, DownloadFailed on
\* a failure.
C15_FetchingThenOneTerminalEvent ==
    \A i \in Tasks :
        tasks[i].fetch # "none"
            => tasks[i].events = <<"Fetching", TerminalEvent(tasks[i].fetch)>>

\* The requests that hold a permit of download_limiter.
HoldingDownloadPermit ==
    {i \in Tasks :
        tasks[i].pc \in {"fetching", "hit_meta", "hit_notify", "mktemp",
                         "dl_tarball", "dl_webc", "remove", "mkparent",
                         "rename", "miss_notify"}}

\* The requests whose FetchAssets future has not returned.
InFlight == {i \in Tasks : tasks[i].fetch = "none"}

\* C16: a request that fails gives its permit back and the Cache keeps
\* serving: the permits held and the permits left always add up to the
\* permits of download_limiter, with no request in flight every permit is
\* available, and as long as a request has not returned, some request can
\* take its next step, whatever failed before.
C16_CacheUsableAfterFailure ==
    /\ dlPermits + Cardinality(HoldingDownloadPermit) = dlLimit
    /\ InFlight = {} => dlPermits = dlLimit
    /\ InFlight # {} => ENABLED (\E i \in Tasks : PrepareNext(i))

\* C16 witness: after a request failed with a download or filesystem
\* error, a later request for the same test case and a later request for
\* another test case returned Assets, and every permit is available.
C16_Witness ==
    /\ InFlight = {}
    /\ dlPermits = dlLimit
    /\ \E i, j, k \in Tasks :
          /\ i < j
          /\ i < k
          /\ tasks[i].fetch = "err"
          /\ tasks[i].error \in {"download", "tempdir", "remove", "mkparent",
                                  "rename_io", "rename_not_empty"}
          /\ tasks[j].case = tasks[i].case
          /\ tasks[j].fetch \in {"hit", "miss"}
          /\ tasks[k].case # tasks[i].case
          /\ tasks[k].fetch \in {"hit", "miss"}

\* ------------------------------------------------- claims on the pipeline

\* The test cases Discovery emitted, without repetition.
EmittedCases == {emitted[k] : k \in 1..Len(emitted)}

\* The reports of Results that belong to future i.
ReportsOfTask(i) == {k \in 1..Len(results) : results[k].task = i}

\* The futures that hold a permit of the Runner's semaphore.
InRunner == {i \in Tasks : tasks[i].pc \in {"setup", "spawn", "running"}}

\* Discovery can still deliver test cases.
DiscoveryOpen == wpc # "finished"

\* C1: the Results hold exactly one Report per distinct test case emitted
\* by Discovery, so len(reports) is the number of distinct emitted cases.
C1_OneReportPerDistinctCase ==
    opc = "done" =>
        /\ Len(results) = Cardinality(EmittedCases)
        /\ \A c \in EmittedCases :
              Cardinality({k \in 1..Len(results) : results[k].case = c}) = 1

\* C2: a fetch, setup or spawn failure of one test case becomes the Outcome
\* of that case's Report, and every discovered test case has its own Report
\* in the Results.
C2_FailuresIsolated ==
    opc = "done" =>
        /\ Len(tasks) = Len(emitted)
        /\ Len(results) = Len(tasks)
        /\ \A i \in Tasks :
              /\ Cardinality(ReportsOfTask(i)) = 1
              /\ \A k \in ReportsOfTask(i) :
                    /\ results[k].case = emitted[i]
                    /\ tasks[i].fetch = "err"
                          => results[k].outcome = "FetchFailed"
                    /\ tasks[i].error \in {"setup", "spawn"}
                          => results[k].outcome = "SetupFailed"
                    /\ results[k].outcome \in
                          {"FetchFailed", "SetupFailed", "Completed"}

\* C2 witness: the experiment returned with a failed fetch reported for one
\* case and a completed run for another.
C2_Witness ==
    /\ opc = "done"
    /\ \E k \in 1..Len(results) : results[k].outcome = "FetchFailed"
    /\ \E k \in 1..Len(results) : results[k].outcome = "Completed"

\* C3: a test case is with the Runner only after its FetchAssets returned
\* Ok; a case whose FetchAssets failed never reaches the Runner and its
\* Report is FetchFailed.
C3_RunnerOnlyAfterFetchOk ==
    \A i \in Tasks :
        /\ (tasks[i].begun \/ tasks[i].pc \in {"run_wait", "setup", "spawn",
                                                "running"})
              => tasks[i].fetch \in {"hit", "miss"}
        /\ tasks[i].fetch = "err"
              => /\ ~tasks[i].begun
                 /\ tasks[i].pc \in {"ready", "collected"}
                 /\ tasks[i].outcome = "FetchFailed"

\* C3 witness: one case was reported FetchFailed and another runs its child
\* process after a successful fetch.
C3_Witness ==
    /\ \E i \in Tasks : tasks[i].fetch = "err" /\ tasks[i].pc = "collected"
    /\ \E i \in Tasks : tasks[i].pc = "running" /\ tasks[i].begun

\* Every download and every child process ends.
TasksEnd == \A i \in 1..MaxCases : WF_vars(TaskNext(i))

\* C4: when downloads and child processes end, every test case the
\* orchestrator has received gets its Report collected, also in the
\* executions where the registry stops answering and discovery never
\* closes; and the orchestrator takes every discovered test case off the
\* channel, also in the executions where the run of an earlier case never
\* ends.
C4_OverlapsDiscoveryAndRuns ==
    /\ TasksEnd => <>[](\A i \in Tasks : tasks[i].pc = "collected")
    /\ <>[](discovered = <<>>)

\* C4 witness: a Report has been collected while discovery is still open
\* and the run of another case is unfinished.
C4_Witness ==
    /\ opc = "loop"
    /\ lpc = "request"
    /\ DiscoveryOpen
    /\ \E i \in Tasks : tasks[i].pc = "collected"
    /\ \E i \in Tasks : tasks[i].pc = "running"

\* C5: BeginExperiment has returned only if the discovery channel is closed
\* and drained and every future created for a discovered case has had its
\* Report collected.
C5_ReturnsAfterEverything ==
    opc = "done" =>
        /\ ~DiscoveryOpen
        /\ discovered = <<>>
        /\ Len(tasks) = Len(emitted)
        /\ \A i \in Tasks : tasks[i].pc = "collected"
        /\ Len(results) = Len(tasks)

\* C5 witness: BeginExperiment returned with the Reports of two cases.
C5_Witness == opc = "done" /\ Len(results) >= 2

\* C6: when the registry answers every request and every download and
\* child process ends, BeginExperiment returns.
C6_Terminates == <>(opc = "done")

\* C6 witness: BeginExperiment returned after one listing failed and a
\* case of another listing was run.
C6_Witness ==
    /\ opc = "done"
    /\ lpc = "finished"
    /\ \E k \in 1..Len(listings) : listings[k] = "error"
    /\ \E k \in 1..Len(results) : results[k].outcome = "Completed"

\* C8: the test cases in setup or with a running child are at most the
\* permits of the Runner's semaphore, each of them holding one permit of
\* that one semaphore.
C8_ProcessesBounded ==
    /\ Cardinality(InRunner) <= ProcessLimit
    /\ procPermits + Cardinality(InRunner) = ProcessLimit

\* C8 witness: every permit is taken by a case in setup or running while
\* another case waits for one.
C8_Witness ==
    /\ Cardinality(InRunner) = ProcessLimit
    /\ \E i \in Tasks : tasks[i].pc = "run_wait"

\* ------------------------------------------------ claims on discovery

RECURSIVE PageCases(_, _)
\* The test cases a sequence of pages turns into, in order.
PageCases(f, queue) ==
    IF queue = <<>> THEN <<>>
    ELSE DiscoverPage(f, Head(queue)) \o PageCases(f, Tail(queue))

\* The pages the registry returned to packages_query, in request order.
QueriedPages == [k \in 1..Len(queried) |-> queried[k].page]

\* The listing has made a request.
Performed(l) == \E k \in 1..Len(queried) : queried[k].listing = l

\* The listing has made a request or is about to make its first one.
Started(l) == Performed(l) \/ (lidx = l /\ lpc = "request")

\* The requests that were answered in the given way.
Answered(answer) == {k \in 1..Len(queried) : queried[k].answer = answer}

\* C17: a listing that ends with an error is followed by the next listing
\* of the plan, so that a discovery that ends has performed every listing;
\* and the test cases of every page the registry returned, before or after
\* the error, are emitted or on their way, in order.
C17_ListingFailureContinues ==
    /\ \A k \in Answered("error") :
           queried[k].listing < Len(Plan(filters))
               => Started(queried[k].listing + 1)
    /\ lpc = "finished" => \A l \in 1..Len(Plan(filters)) : Performed(l)
    /\ emitted \o wbatch \o PageCases(filters, pages)
           \o DiscoverPage(filters, lpage)
         = PageCases(filters, QueriedPages)

\* C17 witness: discovery has ended after a listing forwarded a page and
\* then failed; that page's test case and one of a later listing were
\* both emitted.
C17_Witness ==
    /\ lpc = "finished"
    /\ wpc = "finished"
    /\ \E e \in Answered("error") : \E j, k \in Answered("page") :
           /\ j < e
           /\ queried[j].listing = queried[e].listing
           /\ queried[k].listing > queried[e].listing
           /\ DiscoverPage(filters, queried[j].page) # <<>>
           /\ DiscoverPage(filters, queried[k].page) # <<>>
    /\ Len(emitted) = 2

\* C18: a listing whose response carries a non-empty GraphQL errors array
\* is followed by the next listing of the plan, as a failed listing is.
C18_GraphQLErrorsAbortOneListing ==
    \A k \in Answered("panic") :
        queried[k].listing < Len(Plan(filters))
            => Started(queried[k].listing + 1)

\* The request is the first one of its listing.
FirstOfListing(k) == k = 1 \/ queried[k - 1].listing # queried[k].listing

\* The non-empty pages the registry returned, in request order.
NonEmptyPages == SelectSeq(QueriedPages, LAMBDA page : page # <<>>)

\* The pages packages_query holds or has put in the channel and that the
\* Wapm loop has not taken yet.
PendingPages == pages \o (IF lpc = "send" THEN <<lpage>> ELSE <<>>)

\* C19: the first request of a listing has offset 0; any other request
\* follows a non-empty page of the same listing and has that request's
\* offset plus the length of its page, so that nothing is requested after
\* an empty page; and the non-empty pages returned are, in request order,
\* the pages the Wapm loop has taken followed by those still pending.
C19_Pagination ==
    /\ \A k \in 1..Len(queried) :
           IF FirstOfListing(k)
           THEN /\ queried[k].offset = 0
                /\ k > 1 => queried[k].listing = queried[k - 1].listing + 1
           ELSE /\ queried[k - 1].answer = "page"
                /\ queried[k].offset
                     = queried[k - 1].offset + Len(queried[k - 1].page)
    /\ \A k \in Answered("page") : queried[k].page # <<>>
    /\ LET taken == Len(NonEmptyPages) - Len(PendingPages)
       IN  /\ taken >= 0
           /\ SubSeq(NonEmptyPages, taken + 1, Len(NonEmptyPages))
                = PendingPages
           /\ emitted \o wbatch
                = PageCases(filters, SubSeq(NonEmptyPages, 1, taken))

\* C19 witness: discovery has ended after a listing of two requests, at
\* offsets 0 and 2 (a page of two packages, then the empty page), and a
\* listing of two requests, at offsets 0 and 1 (a page of one package,
\* then the empty page); every page has been taken from the channel.
C19_Witness ==
    /\ lpc = "finished"
    /\ wpc = "finished"
    /\ \E j, k \in 1..Len(queried) :
           /\ j + 1 <= Len(queried)
           /\ FirstOfListing(j)
           /\ queried[j + 1].listing = queried[j].listing
           /\ Len(queried[j].page) = 2
           /\ queried[j + 1].offset = 2
           /\ queried[j + 1].answer = "empty"
           /\ k + 1 <= Len(queried)
           /\ FirstOfListing(k)
           /\ queried[k + 1].listing = queried[k].listing
           /\ Len(queried[k].page) = 1
           /\ queried[k + 1].offset = 1
           /\ queried[k + 1].answer = "empty"

\* The test cases the orchestrator has received, in arrival order.
Received == [i \in Tasks |-> tasks[i].case]

\* The listing a filter asks for in the given position: the namespaces in
\* list order, then the users in list order.
ListingAt(f, l) ==
    IF f.namespaces = <<>> /\ f.users = <<>>
    THEN [kind |-> "all", name |-> ""]
    ELSE IF l <= Len(f.namespaces)
    THEN [kind |-> "namespace", name |-> f.namespaces[l]]
    ELSE [kind |-> "user", name |-> f.users[l - Len(f.namespaces)]]

RECURSIVE ListingOfCases(_, _)
\* For each test case of the pages the registry returned, the listing
\* whose request returned its page.
ListingOfCases(f, requests) ==
    IF requests = <<>> THEN <<>>
    ELSE [k \in 1..Len(DiscoverPage(f, Head(requests).page)) |->
             Head(requests).listing]
         \o ListingOfCases(f, Tail(requests))

\* C20: the requests are made for the namespaces in list order and then
\* the users in list order; what the orchestrator has received is a prefix
\* of the test cases of the returned pages in request order, hence never
\* a case of a later listing before one of an earlier listing; and once
\* the channel has closed it has received all of them.
C20_ReceivedInListingOrder ==
    /\ \A k \in 1..Len(queried) :
           /\ queried[k].target = ListingAt(filters, queried[k].listing)
           /\ k > 1 => queried[k - 1].listing <= queried[k].listing
    /\ Len(Received) <= Len(PageCases(filters, QueriedPages))
    /\ Received = SubSeq(PageCases(filters, QueriedPages), 1, Len(Received))
    /\ \A i, j \in Tasks :
           i < j => ListingOfCases(filters, queried)[i]
                        <= ListingOfCases(filters, queried)[j]
    /\ opc # "loop" => Received = PageCases(filters, QueriedPages)

\* C20 witness: the channel has closed after the orchestrator received the
\* case of a namespace listing and then a different case of a user listing.
C20_Witness ==
    /\ opc # "loop"
    /\ Len(Received) = 2
    /\ Received[1] # Received[2]
    /\ ListingOfCases(filters, queried)[1] < ListingOfCases(filters, queried)[2]
    /\ ListingAt(filters, ListingOfCases(filters, queried)[1]).kind
         = "namespace"
    /\ ListingAt(filters, ListingOfCases(filters, queried)[2]).kind = "user"

RECURSIVE ListingCalls(_)
\* The listing calls made so far: the target of each run of requests that
\* belong to one call of all_packages, all_packages_in_namespace or
\* all_packages_by_user.
ListingCalls(requests) ==
    IF requests = <<>> THEN <<>>
    ELSE IF Len(requests) > 1 /\ requests[2].listing = requests[1].listing
    THEN ListingCalls(Tail(requests))
    ELSE <<Head(requests).target>> \o ListingCalls(Tail(requests))

\* The number of listing calls the filters ask for.
NumListings(f) ==
    IF f.namespaces = <<>> /\ f.users = <<>> THEN 1
    ELSE Len(f.namespaces) + Len(f.users)

\* C21: the listing calls made are, call by call, the ones the filters ask
\* for (one all-packages listing when namespaces and users are empty,
\* otherwise the namespaces by name in list order and then the users by
\* name), never more, and all of them once the listing task has finished.
C21_ListingsFollowFilters ==
    LET calls == ListingCalls(queried)
    IN  /\ Len(calls) <= NumListings(filters)
        /\ \A l \in 1..Len(calls) : calls[l] = ListingAt(filters, l)
        /\ lpc = "finished" => Len(calls) = NumListings(filters)

\* C21 witness: the listing task has finished after one namespace listing
\* of several requests and one user listing, each called by name.
C21_Witness ==
    /\ lpc = "finished"
    /\ ListingCalls(queried)
         = <<[kind |-> "namespace", name |-> "a"],
             [kind |-> "user", name |-> "b"]>>
    /\ Len(queried) >= 4
    /\ queried[2].listing = 1

\* TestCase::display_name: format!("{}/{}", namespace, package_name)
display_name(test_case) ==
    test_case.namespace \o "/" \o test_case.package_name

\* C22: no test case that Discovery has emitted or that the orchestrator
\* has received (and so sent to the Cache) is for a package whose
\* "{namespace}/{package_name}" is in filters.blacklist.
C22_BlacklistedNeverDownstream ==
    /\ \A k \in 1..Len(emitted) :
           display_name(emitted[k]) \notin filters.blacklist
    /\ \A i \in Tasks : display_name(tasks[i].case) \notin filters.blacklist

\* The test case of a package version: the registry's hostname, the
\* package's namespace and name, and the version.
CaseOf(pkg, v) ==
    [registry |-> Hostname, namespace |-> pkg.namespace,
     package_name |-> pkg.package_name, version |-> v.version,
     webc |-> v.webc]

\* What version selection asks of one package the filter lets through.
SelectedCases(f, pkg) ==
    IF f.include_every_version
    THEN LET present == SelectSeq(pkg.versions, LAMBDA e : e # None)
         IN  [k \in 1..Len(present) |-> CaseOf(pkg, present[k][1])]
    ELSE IF pkg.last_version = None THEN <<>>
    ELSE <<CaseOf(pkg, pkg.last_version[1])>>

RECURSIVE SelectedOfPages(_, _)
\* Version selection over the packages of a sequence of pages, in order;
\* a package whose display_name is in the blacklist gives nothing.
SelectedOfPages(f, queue) ==
    IF queue = <<>> THEN <<>>
    ELSE IF Head(queue) = <<>> THEN SelectedOfPages(f, Tail(queue))
    ELSE (IF Head(queue)[1].display_name \in f.blacklist THEN <<>>
          ELSE SelectedCases(f, Head(queue)[1]))
         \o SelectedOfPages(f, <<Tail(Head(queue))>> \o Tail(queue))

\* C23: the test cases emitted, batched or still to be made from pages in
\* flight are, package by package and in order, one case for last_version
\* if it is present (none otherwise) when include_every_version is false,
\* and one case per non-null entry of versions, in list order, when it is
\* true.
C23_VersionSelection ==
    emitted \o wbatch \o SelectedOfPages(filters, PendingPages)
        = SelectedOfPages(filters, QueriedPages)

\* C23 witness: with include_every_version false, a page with a package
\* that has a last_version and one that has none was turned into the one
\* test case, and discovery has ended.
C23_Witness ==
    /\ ~filters.include_every_version
    /\ wpc = "finished"
    /\ \E k \in Answered("page") : queried[k].page = <<PkgA, PkgB>>
    /\ emitted = <<CaseOf(PkgA, V2)>>

\* --------------------------------------------------- claims on the runner

\* The Env setup() builds for the BeginTest in hand.
RunEnv == EnvNew(WorkingDirOf(run.test_case), run.test_case)

\* C24: the argument list of the command is "run", experiment.package,
\* the wasmer.args entries expanded in the host scope in list order, one
\* "--env={name}={value}" per experiment.env entry in insertion order with
\* the value expanded in the guest scope, "--", then the experiment.args
\* entries expanded in the guest scope in list order, and nothing else.
C24_ArgumentList ==
    run.pc \in {"spawn", "reported"} /\ run.cmd # None =>
        LET args == run.cmd[1].args
            e == run.experiment
            nw == Len(e.wasmer.args)
            ne == Len(e.env)
            na == Len(e.args)
        IN  /\ Len(args) = 2 + nw + ne + 1 + na
            /\ args[1] = "run"
            /\ args[2] = e.package
            /\ \A k \in 1..nw :
                  args[2 + k] = resolve(e.wasmer.args[k], HomeDir, RunEnv,
                                        HostScope)
            /\ \A k \in 1..ne :
                  args[2 + nw + k] =
                      "--env=" \o e.env[k][1] \o "="
                      \o resolve(e.env[k][2], HomeDir, RunEnv, GuestScope)
            /\ args[2 + nw + ne + 1] = "--"
            /\ \A k \in 1..na :
                  args[3 + nw + ne + k] = resolve(e.args[k], HomeDir, RunEnv,
                                                  GuestScope)

\* A command built for a/x@2 from the experiment with templates in every
\* list.
C24_Witness ==
    /\ run.pc = "spawn"
    /\ run.cmd # None
    /\ run.cmd[1].args =
          <<"run", "wasmer/python",
            "--mapdir=/w:exp/experiments/a/x/2/working", "x",
            "--env=TARBALL=${TARBALL_PATH}", "--env=NAME=a/x", "--",
            "/home/u/package.tar.gz", "${WORKING_DIR}", "package.webc">>


\* The names experiment.wasmer.env sets.
WasmerEnvNames(e) == {e.wasmer.env[k][1] : k \in 1..Len(e.wasmer.env)}

\* C25: the environment of the command holds the variables among PATH and
\* WASMER_DIR that the parent environment sets, and every name of
\* experiment.wasmer.env with its value expanded in the host scope, the
\* experiment's value winning over the parent's; it holds no other
\* variable of the parent.
C25_ChildEnvironment ==
    run.pc \in {"spawn", "reported"} /\ run.cmd # None =>
        LET envs == run.cmd[1].envs
            e == run.experiment
            forwarded == DOMAIN run.parent \cap {"PATH", "WASMER_DIR"}
        IN  /\ DOMAIN envs = forwarded \cup WasmerEnvNames(e)
            /\ \A k \in 1..Len(e.wasmer.env) :
                  envs[e.wasmer.env[k][1]] =
                      resolve(e.wasmer.env[k][2], HomeDir, RunEnv, HostScope)
            /\ \A n \in forwarded \ WasmerEnvNames(e) :
                  envs[n] = run.parent[n]

\* The parent sets PATH, WASMER_DIR and SECRET and the experiment sets
\* PATH and WEBC: the child gets the experiment's PATH, the parent's
\* WASMER_DIR and no SECRET.
C25_Witness ==
    /\ run.pc = "spawn"
    /\ run.cmd # None
    /\ DOMAIN run.parent = {"PATH", "WASMER_DIR", "SECRET"}
    /\ run.cmd[1].envs =
          [n \in {"PATH", "WASMER_DIR", "WEBC"} |->
              CASE n = "PATH" -> "/opt/bin"
                [] n = "WASMER_DIR" -> "/w"
                [] n = "WEBC" -> "exp/experiments/a/x/2/working/package.webc"]


\* The Env of a run that differs from env in its host-only values alone.
Elsewhere(env) == [env EXCEPT !.host = [v \in DOMAIN @ |-> "/elsewhere"]]

\* An Env whose common scope also defines every name of the host scope.
Shadowed(env) ==
    [env EXCEPT !.common =
        [v \in DOMAIN env.common \cup DOMAIN env.host |->
            IF v \in DOMAIN env.host THEN "common" ELSE env.common[v]]]

\* The arguments of the command that go to the guest: the --env arguments,
\* the separator and what follows it.
GuestArguments(args, experiment) ==
    SubSeq(args, 3 + Len(experiment.wasmer.args), Len(args))

\* C26: the arguments expanded in the guest scope are those a run with
\* other values of TARBALL_PATH, WEBC_PATH and WORKING_DIR gets, the guest
\* scope resolves exactly the common variables, and a lookup in the host
\* scope returns the host value of a name both scopes define.
C26_GuestScopeIsCommonOnly ==
    run.pc \in {"spawn", "reported"} /\ run.cmd # None =>
        /\ GuestArguments(run.cmd[1].args, run.experiment) =
              GuestArguments(CommandArgs(run.experiment, HomeDir,
                                         Elsewhere(RunEnv)), run.experiment)
        /\ \A v \in DOMAIN RunEnv.host : get_guest(RunEnv, v) = None
        /\ \A v \in DOMAIN RunEnv.common :
              get_guest(RunEnv, v) = Some(RunEnv.common[v])
        /\ \A v \in DOMAIN RunEnv.host :
              get_host(Shadowed(RunEnv), v) = Some(RunEnv.host[v])
        /\ \A v \in DOMAIN RunEnv.common :
              get_host(RunEnv, v) = Some(RunEnv.common[v])

\* The experiment names TARBALL_PATH in experiment.env and WORKING_DIR in
\* experiment.args, and the command leaves both as written.
C26_Witness ==
    /\ run.pc = "spawn"
    /\ run.cmd # None
    /\ \E k \in 1..Len(run.experiment.env) :
          run.experiment.env[k][2] = <<Var("TARBALL_PATH")>>
    /\ \E k \in 1..Len(run.experiment.args) :
          run.experiment.args[k] = <<Var("WORKING_DIR")>>
    /\ GuestArguments(run.cmd[1].args, run.experiment) =
          <<"--env=TARBALL=${TARBALL_PATH}", "--env=NAME=a/x", "--",
            "/home/u/package.tar.gz", "${WORKING_DIR}", "package.webc">>
    /\ RunEnv.host["WORKING_DIR"] = "exp/experiments/a/x/2/working"


\* C27: WEBC_FILENAME of the common scope and WEBC_PATH of the host scope
\* are defined exactly when Assets.webc is present and the
\* working/package.webc symlink has been created.
C27_WebcVariablesIffAsset ==
    run.pc \in {"spawn", "reported"} /\ run.env # None =>
        LET env == run.env[1]
            asset == /\ run.assets.webc # None
                     /\ "working/package.webc" \in run.base_dir
        IN  /\ ("WEBC_FILENAME" \in DOMAIN env.common) = asset
            /\ ("WEBC_PATH" \in DOMAIN env.host) = asset


\* C28: the program of the command follows experiment.wasmer.version:
\* "wasmer", looked up in PATH, for Latest and Release, and the given path
\* for Local.
C28_ProgramFollowsVersion ==
    run.pc \in {"spawn", "reported"} /\ run.cmd # None =>
        LET version == run.experiment.wasmer.version
        IN  run.cmd[1].program =
                IF version.kind = "Local" THEN version.path ELSE "wasmer"


\* C29: when a Report with Completed or SetupFailed is produced, the
\* base_dir it carries exists and holds test_case.json, stdout.txt,
\* stderr.txt and the working directory, whichever step failed.
C29_BaseDirComplete ==
    run.pc = "reported" /\ run.outcome \in {"Completed", "SetupFailed"} =>
        {".", "test_case.json", "stdout.txt", "stderr.txt", "working"}
            \subseteq run.base_dir


\* --------------------------------------------------- claims on the builder

\* C30: whatever the outcomes of the test cases, and when no test case
\* reached the Runner, ExperimentBuilder::run writes results.json and
\* report.html into experiment_dir and returns Ok.
C30_RunAlwaysSucceeds ==
    builder.pc = "returned" =>
        /\ builder.result = "Ok"
        /\ {"results.json", "report.html"} \subseteq builder.dir


\* ------------------------------------------------ claims on the whole run

\* C31: no two BeginTest executions are in progress with the same
\* base_dir, so that no setup() removes or writes the base_dir of a
\* running case.
C31_BaseDirExclusive ==
    \A i, j \in InRunner :
        i # j => BaseDirOf(tasks[i].case) # BaseDirOf(tasks[j].case)


\* C37: the Runner's semaphore has at least 4 permits and the Cache's
\* download_limiter at least 16, whatever the available parallelism of
\* the machine, also when it is not known.
C37_PermitFloors ==
    /\ procPermits + Cardinality(InRunner) >= 4
    /\ dlLimit >= 16


\* A template made of literal text and ${X} references only.
LiteralsAndVariables(template) ==
    \A k \in 1..Len(template) : template[k][1] \in {"lit", "var"}

RECURSIVE Substituted(_, _, _)
\* The text of such a template with every variable the scope knows
\* replaced by its value and every other variable by the empty string.
Substituted(template, env, scope) ==
    IF template = <<>> THEN ""
    ELSE LET piece == Head(template)
             text == IF piece[1] = "lit" THEN piece[2]
                     ELSE IF Lookup(env, scope, piece[2]) # None
                     THEN Lookup(env, scope, piece[2])[1]
                     ELSE ""
         IN  text \o Substituted(Tail(template), env, scope)

\* C32: resolving a template of literal text and ${X} references puts
\* lookup(X) in place of every X the lookup knows and the empty string in
\* place of every X it does not know.
C32_UnknownVariablesExpandToEmpty ==
    run.pc \in {"spawn", "reported"} /\ run.cmd # None =>
        LET e == run.experiment
            args == run.cmd[1].args
            first == Len(args) - Len(e.args)
        IN  \A k \in 1..Len(e.args) :
                LiteralsAndVariables(e.args[k]) =>
                    args[first + k] = Substituted(e.args[k], RunEnv, GuestScope)


\* The test cases the orchestrator has received and whose Report it has
\* not collected.
HeldByOrchestrator == Len(tasks) - Len(completed)

\* C33: the test cases the orchestrator holds in flight are at most what
\* the channel from Discovery and the permits of the two semaphores hold
\* together, however many test cases Discovery produces.
C33_InFlightBounded ==
    HeldByOrchestrator
        <= ChannelBuffer + dlLimit + procPermits + Cardinality(InRunner)


C35_SpawnFailedUnused ==
    /\ [](/\ \A i \in Tasks : tasks[i].outcome # "SpawnFailed"
          /\ \A k \in 1..Len(completed) : completed[k].outcome # "SpawnFailed"
          /\ \A k \in 1..Len(results) : results[k].outcome # "SpawnFailed")
    /\ [][\A i \in Tasks :
            (tasks[i].pc # "ready" /\ tasks'[i].pc = "ready") =>
                tasks'[i].outcome =
                    CASE tasks[i].pc \in {"setup", "spawn"} -> "SetupFailed"
                      [] tasks[i].pc = "running" -> "Completed"
                      [] OTHER -> "FetchFailed"]_vars

\* The Results hold a SetupFailed of a process that could not be started
\* and a Completed of a process that exited with a failure status.
C35_Witness ==
    /\ opc = "done"
    /\ \E k \in 1..Len(results) :
          results[k].outcome = "SetupFailed" /\ results[k].error = "spawn"
    /\ \E k \in 1..Len(results) :
          results[k].outcome = "Completed" /\ ~results[k].success


\* C36: the hit check of a request takes the hit path exactly when the
\* destination directory exists and holds the tarball at that moment; a
\* request resolves as a hit only from the hit path and as a miss only
\* from the download path, and a download that is persisted replaces the
\* destination by the freshly downloaded files. A destination holding only
\* the webc is therefore a miss.
C36_HitIffTarball ==
    [][\A i \in Tasks :
          LET c == tasks[i].case
              cached == "." \in dest[c] /\ Tarball \in dest[c]
          IN  /\ (tasks[i].pc = "fetching" /\ tasks'[i].pc # "fetching") =>
                    tasks'[i].pc = IF cached THEN "hit_meta" ELSE "mktemp"
              /\ (tasks[i].fetch = "none" /\ tasks'[i].fetch = "hit") =>
                    tasks[i].pc = "hit_notify" /\ tasks[i].http = 0
              /\ (tasks[i].fetch = "none" /\ tasks'[i].fetch = "miss") =>
                    tasks[i].pc = "miss_notify" /\ tasks[i].http > 0
              /\ (tasks[i].pc = "rename" /\ tasks'[i].pc = "miss_notify") =>
                    dest'[c] = Downloaded(c)
      ]_vars

\* C36 witness: the cache started with a directory that held only the
\* webc; the first request for it missed, and the destination now holds
\* the fresh download.
C36_Witness ==
    /\ tasks # <<>>
    /\ dest0[tasks[1].case] = {".", Webc}
    /\ tasks[1].fetch = "miss"
    /\ "CacheMiss" \in {tasks[1].events[k] : k \in 1..Len(tasks[1].events)}
    /\ dest[tasks[1].case] = Downloaded(tasks[1].case)


\* C38: a request that fails while downloading the tarball or the webc has
\* not touched the cache directory (no step of a request before the end of
\* its downloads changes a destination), and once a request has failed, at
\* whatever step, its temporary directory is gone.
C38_FailedFetchLeavesNothing ==
    /\ [](\A i \in Tasks : tasks[i].fetch = "err" => tasks[i].temp = Absent)
    /\ [][\A i \in Tasks :
            (/\ tasks'[i] # tasks[i]
             /\ tasks[i].pc \in {"fetching", "mktemp", "dl_tarball", "dl_webc"})
                => dest' = dest
         ]_vars


\* C39: the download permits are held by the requests inside
\* prepare_assets and by nothing else, so a case that waits for the
\* Runner's semaphore, is in setup or has a running child holds none; and
\* as long as a case is unfinished, some case can take its next step.
C39_PermitsNeverNested ==
    /\ dlPermits + Cardinality(HoldingDownloadPermit) = dlLimit
    /\ \A i \in Tasks :
          (tasks[i].pc = "run_wait" \/ i \in InRunner) =>
              /\ i \notin HoldingDownloadPermit
              /\ tasks[i].fetch \in {"hit", "miss"}
    /\ (\E i \in Tasks : tasks[i].pc \notin {"ready", "collected"}) =>
          ENABLED (\E i \in Tasks : TaskNext(i))

\* C39 witness: both semaphores are exhausted, one case downloading and
\* one with a running child, and the pipeline can still move.
C39_Witness ==
    /\ dlPermits = 0
    /\ procPermits = 0
    /\ \E i, j \in Tasks :
          /\ tasks[i].pc = "fetching"
          /\ tasks[j].pc = "running"
    /\ ENABLED (\E i \in Tasks : TaskNext(i))


\* C40: the experiment read back from results.json is the experiment
\* BeginExperiment was given, and every Experiment survives serialization
\* followed by deserialization, whatever its filters hold.
C40_ExperimentRoundTrip ==
    builder.json # None =>
        /\ DeserializeExperiment(builder.json[1]) = BegunExperiment
        /\ \A e \in Experiments :
              DeserializeExperiment(SerializeExperiment(e)) = e

====
